---- MODULE Spec2Model ----
(***************************************************************************)
(* A model of pbls, a language server for Protocol Buffers.                *)
(*                                                                         *)
(* A text is a sequence of Unicode scalar values.  A scalar is written as  *)
(* a one-character string, except the two non-ASCII scalars the model      *)
(* uses, which are written by code point: "U+00E9" (2 bytes in UTF-8, one  *)
(* UTF-16 code unit) and "U+10400" (4 bytes in UTF-8, two UTF-16 code      *)
(* units).  Byte offsets are offsets into the UTF-8 encoding of the text,  *)
(* as in the Rust source.                                                  *)
(***************************************************************************)
EXTENDS Integers, Sequences, FiniteSets, TLC

VARIABLES
    text,             \* File.text
    tree,             \* File.tree: the nodes of the parse tree, in document order
    status,           \* how the last call ended: "ok", "err" (Result::Err) or "panic"
    last_op,          \* the last call: "new", "edit" or "symbols"
    edits,            \* number of File::edit calls so far
    overflow_checks,  \* whether the build traps integer overflow (debug) or wraps (release)
    response,         \* what the last symbols() call returned
    rn_message,       \* relative_name: argument `message`
    rn_name,          \* relative_name: argument `name`
    rn_result,        \* relative_name: [done, value]
    pq_from,          \* possible_qualifiers: argument `from_pkg`
    pq_to,            \* possible_qualifiers: argument `to_pkg`
    pq_result,        \* possible_qualifiers: [done, value]
    disk,             \* the files on disk: path |-> what the file holds
    files,            \* Workspace.files: url |-> file
    request,          \* the request the workspace is given
    reply,            \* what the workspace answers: [done, ...]
    stack,            \* the open_import calls in progress: the imports each has left
    reads,            \* the paths read from disk while the request runs, in order
    inbox,            \* main_loop: the messages connection.receiver yields, in order
    received,         \* main_loop: how many of them the loop has taken
    outbox,           \* main_loop: the messages given to connection.sender, in order
    server            \* main_loop: "running", or how it ended

file_vars == <<text, tree, status, last_op, edits, overflow_checks, response>>
rn_vars == <<rn_message, rn_name, rn_result>>
pq_vars == <<pq_from, pq_to, pq_result>>
ws_vars == <<disk, files, request, reply, stack, reads>>
srv_vars == <<inbox, received, outbox, server>>
vars == <<text, tree, status, last_op, edits, overflow_checks, response,
          rn_message, rn_name, rn_result, pq_from, pq_to, pq_result,
          disk, files, request, reply, stack, reads,
          inbox, received, outbox, server>>

(***************************************************************************)
(* Bounds of the model.                                                    *)
(***************************************************************************)
MaxEdits == 2
MaxComponents == 3
MaxImports == 2

Min(a, b) == IF a <= b THEN a ELSE b

(***************************************************************************)
(* Strings.                                                                *)
(***************************************************************************)
\* char::len_utf8
len_utf8(c) == IF c = "U+10400" THEN 4 ELSE IF c = "U+00E9" THEN 2 ELSE 1

\* char::len_utf16
len_utf16(c) == IF c = "U+10400" THEN 2 ELSE 1

\* The length in bytes of the first k scalars of s: the sum of their
\* len_utf8, which is 1, 2 or 4
prefix_len(s, k) ==
    LET of_len(n) == Cardinality({i \in 1..k : len_utf8(s[i]) = n})
    IN  of_len(1) + 2 * of_len(2) + 4 * of_len(4)

\* str::len: the length of a string in bytes
str_len(s) == prefix_len(s, Len(s))

\* The length in UTF-16 code units of the first k scalars of s
RECURSIVE prefix_utf16(_, _)
prefix_utf16(s, k) == IF k = 0 THEN 0 ELSE prefix_utf16(s, k - 1) + len_utf16(s[k])

\* The scalars of s that start before byte offset b: [count, bytes], with
\* bytes = b exactly when b is a char boundary of s
RECURSIVE scan_to(_, _, _, _)
scan_to(s, b, k, bytes) ==
    IF bytes >= b \/ k = Len(s) THEN [count |-> k, bytes |-> bytes]
    ELSE scan_to(s, b, k + 1, bytes + len_utf8(s[k + 1]))

\* str::is_char_boundary
is_char_boundary(s, b) == scan_to(s, b, 0, 0).bytes = b

\* The number of scalars before byte offset b, a char boundary of s
scalars_before(s, b) == scan_to(s, b, 0, 0).count

\* The lines of s from scalar `from` on, the scan being at scalar i
RECURSIVE split_from(_, _, _)
split_from(s, from, i) ==
    IF i > Len(s) THEN IF from > Len(s) THEN <<>> ELSE <<SubSeq(s, from, Len(s))>>
    ELSE IF s[i] = "\n" THEN <<SubSeq(s, from, i)>> \o split_from(s, i + 1, i + 1)
    ELSE split_from(s, from, i + 1)

\* str::split_inclusive("\n"): the lines of s, each with its terminator
split_inclusive(s) == split_from(s, 1, 1)

\* .map(str::len).sum() over lines[from..to]
RECURSIVE lines_len(_, _, _)
lines_len(lines, from, to) ==
    IF from > to THEN 0 ELSE str_len(lines[from]) + lines_len(lines, from + 1, to)

(***************************************************************************)
(* File::edit                                                              *)
(***************************************************************************)
\* char_to_byte, had it taken `char` for a number of UTF-16 code units: the
\* UTF-8 length of the leading scalars that fit into `char` code units
char_to_byte_utf16(line, char) ==
    LET k == CHOOSE k \in 0..Len(line) :
                 /\ prefix_utf16(line, k) <= char
                 /\ k < Len(line) => prefix_utf16(line, k + 1) > char
    IN  prefix_len(line, k)

\* char_to_byte, had it taken `char` for a number of bytes
char_to_byte_bytes(line, char) == Min(char, str_len(line))

\* fn char_to_byte: the UTF-8 length of the first `char` scalars of the line
char_to_byte(line, char) == prefix_len(line, Min(char, Len(line)))

\* The byte range File::edit computes for one change with a range, `lines`
\* being self.text.split_inclusive("\n").  `overflow` says that
\* range.end.line - range.start.line overflows u32: the build either panics
\* there or wraps to a count above any number of lines.
change_bytes(lines, range) ==
    LET n == Len(lines)
        \* lines.by_ref().take(range.start.line)
        before == Min(range.start.line, n)
        \* lines.peek().map(|line| char_to_byte(line, range.start.character))
        start_offset == IF before < n
                        THEN char_to_byte(lines[before + 1], range.start.character)
                        ELSE 0
        start_byte == lines_len(lines, 1, before) + start_offset
        overflow == range.end.line < range.start.line
        \* lines.by_ref().take(range.end.line - range.start.line)
        within == IF overflow THEN n - before
                  ELSE Min(range.end.line - range.start.line, n - before)
        end_lines == start_byte + lines_len(lines, before + 1, before + within)
        \* lines.peek().map(|line| char_to_byte(line, range.end.character))
        end_offset == IF before + within < n
                      THEN char_to_byte(lines[before + within + 1], range.end.character)
                      ELSE 0
    IN  [overflow |-> overflow,
         start_byte |-> start_byte,
         end_byte |-> end_lines + end_offset - start_offset]

\* Whether String::replace_range(start..end, _) panics on s
replace_range_panics(s, start, end) ==
    \/ ~is_char_boundary(s, start)
    \/ ~is_char_boundary(s, end)
    \/ start > end

\* String::replace_range(start..end, with), where it does not panic
replace_range(s, start, end, with) ==
    SubSeq(s, 1, scalars_before(s, start)) \o with
        \o SubSeq(s, scalars_before(s, end) + 1, Len(s))

\* One pass of the loop of File::edit, for one change: [result, text], where
\* result is "ok" when the change is applied, "err" when it has no range (the
\* `?` returns early) and "panic" when the process aborts.
edit_change(t, change) ==
    LET b == change_bytes(split_inclusive(t), change.range)
    IN  IF ~change.has_range THEN [result |-> "err", text |-> t]
        ELSE IF (b.overflow /\ overflow_checks)
                \/ replace_range_panics(t, b.start_byte, b.end_byte)
             THEN [result |-> "panic", text |-> t]
             ELSE [result |-> "ok",
                   text |-> replace_range(t, b.start_byte, b.end_byte, change.text)]

\* The loop of File::edit, had it stopped after the first change
edit_first_change(t, changes) ==
    IF changes = <<>> THEN [result |-> "ok", text |-> t]
    ELSE edit_change(t, Head(changes))

\* The loop of File::edit over the changes, each read against the text the
\* changes before it left: [result, text] as above
RECURSIVE edit_changes(_, _)
edit_changes(t, changes) ==
    IF changes = <<>> THEN [result |-> "ok", text |-> t]
    ELSE LET r == edit_change(t, Head(changes))
         IN  IF r.result = "ok" THEN edit_changes(r.text, Tail(changes)) ELSE r

(***************************************************************************)
(* The parser (tree-sitter with the protobuf grammar), as far as the model *)
(* needs it: the syntax and import statements of a text, its message and   *)
(* enum declarations, each with its name and body, and the fields of       *)
(* messages.  A tree is the sequence of its named nodes in document order, *)
(* the root first, which is an ERROR node for a text without a token; a    *)
(* node is [kind, parent, start_byte, end_byte], parent being the index of *)
(* the parent node (0 for the root).  Anything else is skipped, and a body *)
(* still open at the end of the text ends there, so every text has a tree. *)
(***************************************************************************)
KwMessage == <<"m", "e", "s", "s", "a", "g", "e">>
KwEnum == <<"e", "n", "u", "m">>

Letters ==
    {"a", "b", "c", "d", "e", "f", "g", "h", "i", "j", "k", "l", "m",
     "n", "o", "p", "q", "r", "s", "t", "u", "v", "w", "x", "y", "z",
     "A", "B", "C", "D", "E", "F", "G", "H", "I", "J", "K", "L", "M",
     "N", "O", "P", "Q", "R", "S", "T", "U", "V", "W", "X", "Y", "Z",
     "0", "1", "2", "3", "4", "5", "6", "7", "8", "9", "_"}

RECURSIVE skip_space(_, _)
skip_space(t, i) ==
    IF i <= Len(t) /\ t[i] \in {" ", "\n"} THEN skip_space(t, i + 1) ELSE i

RECURSIVE word_end(_, _)
word_end(t, i) ==
    IF i <= Len(t) /\ t[i] \in Letters THEN word_end(t, i + 1) ELSE i

\* The index of the first "}" of t at or after i, Len(t) + 1 if there is none
RECURSIVE find_close(_, _)
find_close(t, i) ==
    IF i <= Len(t) /\ t[i] # "}" THEN find_close(t, i + 1) ELSE i

\* The scalar types of the grammar: a field of one of them has a type node
\* without a named child
ScalarTypes ==
    {<<"b", "o", "o", "l">>, <<"b", "y", "t", "e", "s">>,
     <<"d", "o", "u", "b", "l", "e">>, <<"f", "i", "x", "e", "d", "3", "2">>,
     <<"f", "i", "x", "e", "d", "6", "4">>, <<"f", "l", "o", "a", "t">>,
     <<"i", "n", "t", "3", "2">>, <<"i", "n", "t", "6", "4">>,
     <<"s", "f", "i", "x", "e", "d", "3", "2">>,
     <<"s", "f", "i", "x", "e", "d", "6", "4">>, <<"s", "i", "n", "t", "3", "2">>,
     <<"s", "i", "n", "t", "6", "4">>, <<"s", "t", "r", "i", "n", "g">>,
     <<"u", "i", "n", "t", "3", "2">>, <<"u", "i", "n", "t", "6", "4">>}

Digits == {"0", "1", "2", "3", "4", "5", "6", "7", "8", "9"}

RECURSIVE digits_end(_, _)
digits_end(t, i) ==
    IF i <= Len(t) /\ t[i] \in Digits THEN digits_end(t, i + 1) ELSE i

\* The end of the dotted name that starts at scalar i
RECURSIVE type_end(_, _)
type_end(t, i) ==
    LET we == word_end(t, i)
    IN  IF we > i /\ we < Len(t) /\ t[we] = "." /\ t[we + 1] \in Letters
        THEN type_end(t, we + 1)
        ELSE we

\* The ident nodes of the dotted name from scalar i to scalar `te`
RECURSIVE ident_nodes(_, _, _, _)
ident_nodes(t, i, te, parent) ==
    IF i >= te THEN <<>>
    ELSE <<[kind |-> "ident", parent |-> parent, start |-> i, end |-> word_end(t, i)]>>
             \o ident_nodes(t, word_end(t, i) + 1, te, parent)

\* Where the parts of a field that starts at scalar j are, had the text a
\* field there: `type name = number;`
field_at(t, j) ==
    LET te == type_end(t, j)
        name == skip_space(t, te)
        name_end == word_end(t, name)
        eq == skip_space(t, name_end)
        number == skip_space(t, eq + 1)
        number_end == digits_end(t, number)
        semi == skip_space(t, number_end)
    IN  [is_field |-> /\ name > te
                      /\ name_end > name
                      /\ eq <= Len(t)
                      /\ t[eq] = "="
                      /\ number_end > number
                      /\ semi <= Len(t)
                      /\ t[semi] = ";",
         type_end |-> te, name |-> name, name_end |-> name_end,
         number |-> number, number_end |-> number_end, end |-> semi + 1]

\* The nodes of the field f that starts at scalar j, the first of them
\* being node d of the tree
field_nodes(t, parent, d, j, f) ==
    LET named == IF SubSeq(t, j, f.type_end - 1) \in ScalarTypes THEN <<>>
                 ELSE <<[kind |-> "enumMessageType", parent |-> d + 1,
                         start |-> j, end |-> f.type_end]>>
                          \o ident_nodes(t, j, f.type_end, d + 2)
        n == d + 2 + Len(named)
    IN  << [kind |-> "field", parent |-> parent, start |-> j, end |-> f.end],
           [kind |-> "type", parent |-> d, start |-> j, end |-> f.type_end] >>
        \o named
        \o << [kind |-> "fieldName", parent |-> d, start |-> f.name, end |-> f.name_end],
               [kind |-> "ident", parent |-> n, start |-> f.name, end |-> f.name_end],
               [kind |-> "fieldNumber", parent |-> d, start |-> f.number,
                end |-> f.number_end] >>

KwSyntax == <<"s", "y", "n", "t", "a", "x">>
KwImportWord == <<"i", "m", "p", "o", "r", "t">>

\* The index of the first `"` of t at or after i that is on the line of i,
\* Len(t) + 1 if there is none
RECURSIVE find_quote(_, _)
find_quote(t, i) ==
    IF i > Len(t) \/ t[i] = "\n" THEN Len(t) + 1
    ELSE IF t[i] = "\"" THEN i
    ELSE find_quote(t, i + 1)

\* Where the parts of the statement whose keyword ends before scalar `we`
\* are, had the text a statement there: `syntax = "..";` or `import "..";`
statement_at(t, word, we) ==
    LET eq == skip_space(t, we)
        lit == IF word = KwSyntax THEN skip_space(t, eq + 1) ELSE eq
        lit_end == find_quote(t, lit + 1)
        semi == skip_space(t, lit_end + 1)
    IN  [is_statement |-> /\ word \in {KwSyntax, KwImportWord}
                          /\ eq <= Len(t)
                          /\ (word = KwSyntax => t[eq] = "=")
                          /\ lit <= Len(t)
                          /\ t[lit] = "\""
                          /\ lit_end <= Len(t)
                          /\ semi <= Len(t)
                          /\ t[semi] = ";",
         lit |-> lit, lit_end |-> lit_end + 1, end |-> semi + 1]

\* The nodes of the statement st that starts at scalar j, the first of them
\* being node d of the tree
statement_nodes(word, d, j, st) ==
    IF word = KwSyntax
    THEN <<[kind |-> "syntax", parent |-> 1, start |-> j, end |-> st.end]>>
    ELSE << [kind |-> "import", parent |-> 1, start |-> j, end |-> st.end],
            [kind |-> "strLit", parent |-> d, start |-> st.lit, end |-> st.lit_end] >>

\* The four nodes of a declaration that starts at scalar `at`: the
\* declaration, its name, the name's ident and its body.  Offsets are scalar
\* indexes here; parse turns them into byte offsets.
decl_nodes(kind, parent, d, at, name, name_end, open) ==
    << [kind |-> kind, parent |-> parent, start |-> at, end |-> 0],
       [kind |-> kind \o "Name", parent |-> d, start |-> name, end |-> name_end],
       [kind |-> "ident", parent |-> d + 1, start |-> name, end |-> name_end],
       [kind |-> kind \o "Body", parent |-> d, start |-> open, end |-> 0] >>

\* The declarations of t from scalar i on, inside node `parent`:
\* [nodes, pos], pos being where the scan stopped (at the "}" that closes
\* the enclosing body, or past the end of the text).
RECURSIVE parse_items(_, _, _, _)
parse_items(t, i, parent, nodes) ==
    LET j == skip_space(t, i)
    IN  IF j > Len(t) THEN [nodes |-> nodes, pos |-> j]
        ELSE IF t[j] = "}"
        THEN IF parent # 1 THEN [nodes |-> nodes, pos |-> j]
             ELSE parse_items(t, j + 1, parent, nodes)
        ELSE IF t[j] \notin Letters THEN parse_items(t, j + 1, parent, nodes)
        ELSE
            LET we == word_end(t, j)
                word == SubSeq(t, j, we - 1)
                name == skip_space(t, we)
                name_end == word_end(t, name)
                open == skip_space(t, name_end)
                d == Len(nodes) + 1
                f == field_at(t, j)
                st == statement_at(t, word, we)
            IN  IF ~(/\ word \in {KwMessage, KwEnum}
                     /\ name_end > name
                     /\ open <= Len(t)
                     /\ t[open] = "{")
                THEN IF parent # 1 /\ word \notin {KwMessage, KwEnum} /\ f.is_field
                     THEN parse_items(t, f.end, parent,
                                      nodes \o field_nodes(t, parent, d, j, f))
                     ELSE IF parent = 1 /\ st.is_statement
                     THEN parse_items(t, st.end, parent,
                                      nodes \o statement_nodes(word, d, j, st))
                     ELSE parse_items(t, we, parent, nodes)
                ELSE IF word = KwMessage
                THEN LET body == parse_items(t, open + 1, d + 3,
                                     nodes \o decl_nodes("message", parent, d, j,
                                                         name, name_end, open))
                         close == Min(body.pos + 1, Len(t) + 1)
                     IN  parse_items(t, close, parent,
                             [body.nodes EXCEPT ![d].end = close, ![d + 3].end = close])
                ELSE LET close == Min(find_close(t, open + 1) + 1, Len(t) + 1)
                         all == nodes \o decl_nodes("enum", parent, d, j,
                                                    name, name_end, open)
                     IN  parse_items(t, close, parent,
                             [all EXCEPT ![d].end = close, ![d + 3].end = close])

\* The byte offset of the scalar at index i of t
byte_of(t, i) == prefix_len(t, i - 1)

\* tree_sitter::Parser::parse, as File::new and File::edit call it
parse(t) ==
    LET blank == \A i \in 1..Len(t) : t[i] \in {" ", "\n"}
        root == [kind |-> IF blank THEN "ERROR" ELSE "source_file",
                 parent |-> 0, start |-> 1, end |-> Len(t) + 1]
        nodes == parse_items(t, 1, 1, <<root>>).nodes
    IN  [i \in 1..Len(nodes) |->
            [kind |-> nodes[i].kind,
             parent |-> nodes[i].parent,
             start_byte |-> byte_of(t, nodes[i].start),
             end_byte |-> byte_of(t, nodes[i].end)]]

(***************************************************************************)
(* Queries over the tree.  A call that can abort the process returns a     *)
(* record whose field `panic` says whether it does.                        *)
(***************************************************************************)
\* tree_sitter::Node::utf8_text(text.as_bytes()): the slice
\* source[start_byte..end_byte] panics when it is out of range, and
\* str::from_utf8 is Err (ok = FALSE) when the slice splits a scalar.
utf8_text(t, node) ==
    LET in_range == node.end_byte <= str_len(t)
        ok == /\ in_range
              /\ is_char_boundary(t, node.start_byte)
              /\ is_char_boundary(t, node.end_byte)
    IN  [panic |-> ~in_range,
         ok |-> ok,
         value |-> IF ok THEN SubSeq(t, scalars_before(t, node.start_byte) + 1,
                                     scalars_before(t, node.end_byte))
                   ELSE <<>>]

\* File::get_text: utf8_text(..).unwrap()
get_text(t, node) ==
    LET r == utf8_text(t, node)
    IN  [panic |-> r.panic \/ ~r.ok, value |-> r.value]

\* The children of node i, in document order
children(tr, i) == {c \in 1..Len(tr) : tr[c].parent = i}

first_of(S) == CHOOSE i \in S : \A j \in S : i <= j

\* File::type_name: the text of the name child of a message or enum node
type_name(t, tr, i) ==
    LET named == {c \in children(tr, i) :
                     tr[c].kind \in {"messageName", "enumName", "serviceName"}}
        r == utf8_text(t, tr[first_of(named)])
    IN  IF named = {} THEN [panic |-> FALSE, some |-> FALSE, value |-> <<>>]
        ELSE [panic |-> r.panic, some |-> r.ok, value |-> r.value]

\* The loop of File::parent_name: the names pushed to `res` while walking
\* from node i to the root, innermost first
RECURSIVE parent_names(_, _, _)
parent_names(t, tr, i) ==
    LET parent == tr[i].parent
        name == type_name(t, tr, parent)
        rest == parent_names(t, tr, parent)
    IN  IF parent = 0 THEN [panic |-> FALSE, res |-> <<>>]
        ELSE IF tr[parent].kind # "message" THEN rest
        ELSE IF name.panic THEN [panic |-> TRUE, res |-> <<>>]
        ELSE [panic |-> rest.panic,
              res |-> (IF name.some THEN <<name.value>> ELSE <<>>) \o rest.res]

RECURSIVE reverse(_)
reverse(s) == IF s = <<>> THEN <<>> ELSE reverse(Tail(s)) \o <<Head(s)>>

\* [&str]::join(".")
RECURSIVE join(_)
join(parts) ==
    IF parts = <<>> THEN <<>>
    ELSE IF Len(parts) = 1 THEN parts[1]
    ELSE parts[1] \o <<".">> \o join(Tail(parts))

\* File::parent_name: None when no name was pushed
parent_name(t, tr, i) ==
    LET r == parent_names(t, tr, i)
    IN  [panic |-> r.panic,
         some |-> r.res # <<>>,
         value |-> join(reverse(r.res))]

\* The ident captured as @id for the declaration node d, 0 if the pattern
\* (message (messageName (ident) @id)) / (enum (enumName (ident) @id)) does
\* not match d
captured_id(tr, d) ==
    LET ids == {c \in 1..Len(tr) :
                   /\ tr[c].kind = "ident"
                   /\ tr[c].parent \in children(tr, d)
                   /\ tr[tr[c].parent].kind = tr[d].kind \o "Name"}
    IN  IF ids = {} THEN 0 ELSE first_of(ids)

\* The matches of the query of File::symbols, had it yielded one match per
\* capture (@id and @def) instead of one per pattern
RECURSIVE symbol_defs_per_capture(_, _)
symbol_defs_per_capture(tr, from) ==
    IF from > Len(tr) THEN <<>>
    ELSE IF tr[from].kind \in {"message", "enum"} /\ captured_id(tr, from) # 0
    THEN <<from, from>> \o symbol_defs_per_capture(tr, from + 1)
    ELSE symbol_defs_per_capture(tr, from + 1)

\* The nodes the query of File::symbols matches as @def, in document order
RECURSIVE symbol_defs(_, _)
symbol_defs(tr, from) ==
    IF from > Len(tr) THEN <<>>
    ELSE IF tr[from].kind \in {"message", "enum"} /\ captured_id(tr, from) # 0
    THEN <<from>> \o symbol_defs(tr, from + 1)
    ELSE symbol_defs(tr, from + 1)

\* The closure of File::symbols that turns one match into a Symbol
symbol_of(t, tr, def) ==
    LET name == get_text(t, tr[captured_id(tr, def)])
        p == parent_name(t, tr, def)
    IN  [panic |-> name.panic \/ p.panic,
         symbol |-> [kind |-> IF tr[def].kind = "message" THEN "Message" ELSE "Enum",
                     name |-> IF p.some THEN p.value \o <<".">> \o name.value
                              ELSE name.value,
                     range |-> [start_byte |-> tr[def].start_byte,
                                end_byte |-> tr[def].end_byte]]]

\* File::symbols, collected: [panic, symbols]
symbols(t, tr) ==
    LET defs == symbol_defs(tr, 1)
        each == [k \in 1..Len(defs) |-> symbol_of(t, tr, defs[k])]
    IN  IF \E k \in 1..Len(defs) : each[k].panic
        THEN [panic |-> TRUE, symbols |-> <<>>]
        ELSE [panic |-> FALSE, symbols |-> [k \in 1..Len(defs) |-> each[k].symbol]]

(***************************************************************************)
(* relative_name                                                           *)
(***************************************************************************)
\* The parts of s from scalar `from` on, the scan being at scalar i
RECURSIVE split_dot_from(_, _, _)
split_dot_from(s, from, i) ==
    IF i > Len(s) THEN <<SubSeq(s, from, Len(s))>>
    ELSE IF s[i] = "." THEN <<SubSeq(s, from, i - 1)>> \o split_dot_from(s, i + 1, i + 1)
    ELSE split_dot_from(s, from, i + 1)

\* str::split("."): the parts of s between its dots, one empty part for ""
split_dot(s) == split_dot_from(s, 1, 1)

\* .zip(..).take_while(|(a, b)| a == b).map(|(a, _)| a): the leading parts
\* of a that b has at the same places
RECURSIVE zip_take_while_eq(_, _)
zip_take_while_eq(a, b) ==
    IF a = <<>> \/ b = <<>> THEN <<>>
    ELSE IF Head(a) # Head(b) THEN <<>>
    ELSE <<Head(a)>> \o zip_take_while_eq(Tail(a), Tail(b))

\* str::strip_prefix: [some, value]
strip_prefix(s, prefix) ==
    IF Len(prefix) <= Len(s) /\ SubSeq(s, 1, Len(prefix)) = prefix
    THEN [some |-> TRUE, value |-> SubSeq(s, Len(prefix) + 1, Len(s))]
    ELSE [some |-> FALSE, value |-> <<>>]

\* Option::unwrap_or
unwrap_or(option, default) == IF option.some THEN option.value ELSE default

\* str::rsplit_once("."): [some, value], value being what follows the last dot
rsplit_once_dot(s) ==
    LET dots == {i \in 1..Len(s) : s[i] = "."}
        last == CHOOSE i \in dots : \A j \in dots : j <= i
    IN  IF dots = {} THEN [some |-> FALSE, value |-> <<>>]
        ELSE [some |-> TRUE, value |-> SubSeq(s, last + 1, Len(s))]

\* relative_name, had it had no branch for a name that is all prefix
relative_name_stripped(message, name) ==
    LET prefix == join(zip_take_while_eq(split_dot(name), split_dot(message)))
    IN  unwrap_or(strip_prefix(unwrap_or(strip_prefix(name, prefix), name), <<".">>), name)

\* fn relative_name(message, name)
relative_name(message, name) ==
    LET prefix == join(zip_take_while_eq(split_dot(name), split_dot(message)))
    IN  IF str_len(prefix) = str_len(name)
        THEN unwrap_or(rsplit_once_dot(name), name)
        ELSE unwrap_or(strip_prefix(unwrap_or(strip_prefix(name, prefix), name), <<".">>),
                       name)

(***************************************************************************)
(* possible_qualifiers                                                     *)
(***************************************************************************)
\* str::rsplit_once("."): [some, value], value being what precedes the last dot
rsplit_once_dot_head(s) ==
    LET dots == {i \in 1..Len(s) : s[i] = "."}
        last == CHOOSE i \in dots : \A j \in dots : j <= i
    IN  IF dots = {} THEN [some |-> FALSE, value |-> <<>>]
        ELSE [some |-> TRUE, value |-> SubSeq(s, 1, last - 1)]

\* The qualifier possible_qualifiers pushes for to_pkg itself, if any
stripped_qualifier(from_pkg, to_pkg) ==
    LET pkg == strip_prefix(from_pkg, to_pkg)
    IN  IF pkg.some THEN <<unwrap_or(strip_prefix(pkg.value, <<".">>), pkg.value)>>
        ELSE <<>>

\* possible_qualifiers, had it not gone on to the packages around to_pkg
possible_qualifiers_flat(from_pkg, to_pkg) ==
    IF to_pkg = <<>> THEN <<from_pkg>>
    ELSE stripped_qualifier(from_pkg, to_pkg) \o <<from_pkg>>

\* fn possible_qualifiers(from_pkg, to_pkg)
RECURSIVE possible_qualifiers(_, _)
possible_qualifiers(from_pkg, to_pkg) ==
    IF to_pkg = <<>> THEN <<from_pkg>>
    ELSE LET outer == rsplit_once_dot_head(to_pkg)
         IN  stripped_qualifier(from_pkg, to_pkg)
                 \o (IF outer.some THEN possible_qualifiers(from_pkg, outer.value)
                     ELSE <<from_pkg>>)

(***************************************************************************)
(* The workspace.  A file of the workspace is kept as what the queries of  *)
(* File return for it: package(), imports() and symbols().  A path is      *)
(* [root, rel]: a search root and the path below it; a Url is the path it  *)
(* was made from (Url::from_file_path).                                    *)
(***************************************************************************)
None == [some |-> FALSE, value |-> <<>>]
Some(v) == [some |-> TRUE, value |-> v]

\* Workspace.proto_paths, as given to Workspace::new
ProtoPaths == <<"r1", "r2">>

Path(root, rel) == [root |-> root, rel |-> rel]

\* Workspace::find_import: the first search root that has `name` below it
find_import(name) ==
    LET found == {i \in 1..Len(ProtoPaths) : Path(ProtoPaths[i], name) \in DOMAIN disk}
    IN  IF found = {} THEN None
        ELSE Some(Path(ProtoPaths[CHOOSE i \in found : \A j \in found : i <= j], name))

\* Iterator::find over the symbols of a file: the index of the first symbol
\* whose name is in `names`, 0 if there is none
find_named(file, names) ==
    LET hits == {k \in 1..Len(file.symbols) : file.symbols[k].name \in names}
    IN  IF hits = {} THEN 0 ELSE CHOOSE k \in hits : \A j \in hits : k <= j

Location(uri, file, k) == [panic |-> FALSE, some |-> TRUE, uri |-> uri,
                           range |-> file.symbols[k].range]
NoLocation == [panic |-> FALSE, some |-> FALSE]
Aborted == [panic |-> TRUE, some |-> FALSE]

\* unqualified_names, had the package of the import been its only qualifier
unqualified_names_full(name, package, local) ==
    LET stripped == strip_prefix(unwrap_or(strip_prefix(name, package), <<>>), <<".">>)
    IN  IF strip_prefix(name, package).some /\ stripped.some THEN {stripped.value} ELSE {}

\* The names a symbol of a file of package `package` may have for typ.name to
\* refer to it from a file of package `local`, when the packages differ:
\* typ.name without a qualifier and the "." after it
unqualified_names(name, package, local) ==
    LET quals == possible_qualifiers(package, unwrap_or(local, <<>>))
        stripped(k) == strip_prefix(unwrap_or(strip_prefix(name, quals[k]), <<>>), <<".">>)
    IN  {stripped(k).value : k \in {i \in 1..Len(quals) :
                                        /\ strip_prefix(name, quals[i]).some
                                        /\ stripped(i).some}}

\* The loop of Workspace::find_symbol over the imports of the file
RECURSIVE find_in_imports(_, _, _)
find_in_imports(imports, local_package, typ) ==
    IF imports = <<>> THEN NoLocation
    ELSE LET path == find_import(Head(imports))
             uri == path.value
         IN  IF ~path.some THEN find_in_imports(Tail(imports), local_package, typ)
             ELSE IF uri \notin DOMAIN files THEN Aborted
             ELSE LET file == files[uri]
                      package == file.package
                      k == IF package = local_package THEN find_named(file, {typ.name})
                           ELSE IF package.some
                           THEN find_named(file, unqualified_names(typ.name, package.value,
                                                                   local_package))
                           ELSE find_named(file, {typ.name})
                  IN  IF k # 0 THEN Location(uri, file, k)
                      ELSE find_in_imports(Tail(imports), local_package, typ)

\* find_symbol, had it looked for the name as written before the name
\* behind the parent
find_symbol_unqualified_first(uri, file, typ) ==
    LET qualified == IF typ.parent.some
                     THEN find_named(file, {typ.parent.value \o <<".">> \o typ.name})
                     ELSE 0
        bare == find_named(file, {typ.name})
    IN  IF bare # 0 THEN Location(uri, file, bare)
        ELSE IF qualified # 0 THEN Location(uri, file, qualified)
        ELSE find_in_imports(file.imports, file.package, typ)

\* Workspace::find_symbol(uri, file, typ)
find_symbol(uri, file, typ) ==
    LET qualified == IF typ.parent.some
                     THEN find_named(file, {typ.parent.value \o <<".">> \o typ.name})
                     ELSE 0
        bare == find_named(file, {typ.name})
    IN  IF qualified # 0 THEN Location(uri, file, qualified)
        ELSE IF bare # 0 THEN Location(uri, file, bare)
        ELSE find_in_imports(file.imports, file.package, typ)

\* A file on disk that std::fs::read_to_string fails on
Unreadable == [unreadable |-> TRUE]
readable(path) == "unreadable" \notin DOMAIN disk[path]

\* The calls in progress without those that have no import left: a call
\* whose loop is over returns Ok(()) to its caller
RECURSIVE returned(_)
returned(frames) ==
    IF frames # <<>> /\ Head(frames) = <<>> THEN returned(Tail(frames)) ELSE frames

Running == [done |-> FALSE, running |-> TRUE]
Done(ok) == [done |-> TRUE, ok |-> ok]

\* open_import, had it not looked for the file among those loaded
already_loaded_never(uri) == FALSE

\* self.files.contains_key(&uri) in open_import
already_loaded(uri) == uri \in DOMAIN files

\* The components of the paths below a search root that the model uses
Segments(rel) ==
    CASE rel = "sub/a.proto" -> <<"sub", "a.proto">>
      [] rel = "sub/d.proto" -> <<"sub", "d.proto">>
      [] OTHER -> <<rel>>

\* Path::file_name
file_name(rel) == Segments(rel)[Len(Segments(rel))]

\* Whether the path is an entry of its search root itself (read_dir)
is_direct(rel) == Len(Segments(rel)) = 1

\* extension() == "proto", name.ends_with(".proto")
is_proto(rel) == rel # "notes.txt"

\* Workspace::open_import for each import of each call in progress, the
\* innermost first: [ok, files, reads]
RECURSIVE load_imports(_, _, _)
load_imports(fs, frames, log) ==
    IF returned(frames) = <<>> THEN [ok |-> TRUE, files |-> fs, reads |-> log]
    ELSE LET todo == returned(frames)
             name == Head(Head(todo))
             rest == <<Tail(Head(todo))>> \o Tail(todo)
             path == find_import(name)
             uri == path.value
         IN  IF ~path.some \/ uri \in DOMAIN fs THEN load_imports(fs, rest, log)
             ELSE IF ~readable(uri)
             THEN [ok |-> FALSE, files |-> fs, reads |-> Append(log, uri)]
             ELSE load_imports((uri :> disk[uri]) @@ fs,
                               <<disk[uri].imports>> \o rest, Append(log, uri))

\* load_all, had it read again the files that are loaded
load_all_rereads(fs) ==
    LET entries == {q \in DOMAIN disk :
                       /\ \E i \in 1..Len(ProtoPaths) : q.root = ProtoPaths[i]
                       /\ is_direct(q.rel)
                       /\ is_proto(q.rel)
                       /\ readable(q)}
    IN  {[ok |-> TRUE, files |-> [q \in entries |-> disk[q]] @@ fs]}

\* Workspace::load_all: what it can leave, [ok, files].  It reads the proto
\* files that are entries of a search root and not loaded, in the order
\* read_dir gives them, and stops at the first it cannot read.
load_all_outcomes(fs) ==
    LET entries == {q \in DOMAIN disk :
                       /\ \E i \in 1..Len(ProtoPaths) : q.root = ProtoPaths[i]
                       /\ is_direct(q.rel)
                       /\ is_proto(q.rel)}
        new == entries \ DOMAIN fs
        good == {q \in new : readable(q)}
    IN  IF good = new
        THEN {[ok |-> TRUE, files |-> [q \in good |-> disk[q]] @@ fs]}
        ELSE {[ok |-> FALSE, files |-> [q \in g |-> disk[q]] @@ fs] : g \in SUBSET good}

\* HashMap::insert, had it kept the file the map has for the url
insert_if_absent(fs, uri, file) == fs @@ (uri :> file)

\* self.files.insert(uri, file): the file takes the place of the one the
\* map has for the url
insert(fs, uri, file) == (uri :> file) @@ fs

\* Workspace::get, had it answered for any url with a file without content
get_any(fs, uri) ==
    IF uri \in DOMAIN fs THEN Some(fs[uri])
    ELSE Some([package |-> None, imports |-> <<>>, symbols |-> <<>>])

\* Workspace::get(uri), and self.files.get(uri) with a context
get(fs, uri) == IF uri \in DOMAIN fs THEN Some(fs[uri]) ELSE None

\* find_protos(root): the paths below the root of the proto files under it
find_protos(root) == {q.rel : q \in {d \in DOMAIN disk : d.root = root /\ is_proto(d.rel)}}

\* Workspace::complete_imports(url): [ok, items], an item being [label,
\* insert_text]
complete_imports(fs, url) ==
    LET file == get(fs, url)
        current == file_name(url.rel)
        existing == {file.value.imports[k] : k \in 1..Len(file.value.imports)} \cup {current}
        offered == UNION {find_protos(ProtoPaths[i]) : i \in 1..Len(ProtoPaths)} \ existing
    IN  IF ~file.some THEN [ok |-> FALSE, items |-> {}]
        ELSE [ok |-> TRUE,
              items |-> {[label |-> l, insert_text |-> l \o "\";"] : l \in offered}]

\* The names of file options, and the keywords offered at the top level
OPTIONS == <<"cc_enable_arenas", "cc_generic_services", "csharp_namespace", "deprecated",
             "features", "go_package", "java_generate_equals_and_hash",
             "java_generic_services", "java_multiple_files", "java_outer_classname",
             "java_package", "java_string_check_utf8", "objc_class_prefix", "optimize_for",
             "php_class_prefix", "php_metadata_namespace", "php_namespace",
             "py_generic_services", "ruby_package", "swift_prefix">>
complete_keywords == <<"message", "enum", "import", "option">>

\* The labels complete_types ends its items with
Builtins == <<"bool", "bytes", "double", "fixed32", "fixed64", "float", "int32", "int64",
              "sfixed32", "sfixed64", "sint32", "sint64", "string", "uint32", "uint64">>
Keywords == <<"enum", "extend", "import", "message", "oneof", "option", "optional",
              "package", "repeated", "reserved", "returns", "rpc", "service", "stream",
              "map">>

\* The labels complete_types takes from the imports of a file: [panic, items]
RECURSIVE imported_types(_, _)
imported_types(imports, current_package) ==
    IF imports = <<>> THEN [panic |-> FALSE, items |-> <<>>]
    ELSE LET path == find_import(Head(imports))
             rest == imported_types(Tail(imports), current_package)
             file == files[path.value]
             names == [k \in 1..Len(file.symbols) |->
                          IF ~file.package.some \/ file.package = current_package
                          THEN file.symbols[k].name
                          ELSE file.package.value \o <<".">> \o file.symbols[k].name]
         IN  IF ~path.some THEN rest
             ELSE IF path.value \notin DOMAIN files THEN [panic |-> TRUE, items |-> <<>>]
             ELSE [panic |-> rest.panic, items |-> names \o rest.items]

\* Workspace::complete_types(base_name, file): [panic, items], the items by
\* their labels
complete_types(base_name, file) ==
    LET own == [k \in 1..Len(file.symbols) |-> relative_name(base_name, file.symbols[k].name)]
        imported == imported_types(file.imports, file.package)
    IN  [panic |-> imported.panic, items |-> own \o imported.items \o Builtins \o Keywords]

\* What a request handler of the workspace ends with: Ok(value), Err, or a
\* panic of the thread that serves requests
WsOk(value) == [done |-> TRUE, ok |-> TRUE, panic |-> FALSE, value |-> value]
WsErr == [done |-> TRUE, ok |-> FALSE, panic |-> FALSE]
WsPanic == [done |-> TRUE, ok |-> FALSE, panic |-> TRUE]

\* str::split_whitespace: the runs of characters other than " "
RECURSIVE split_whitespace_from(_, _)
split_whitespace_from(s, token) ==
    IF s = <<>> THEN IF token = <<>> THEN <<>> ELSE <<token>>
    ELSE IF Head(s) = " "
    THEN (IF token = <<>> THEN <<>> ELSE <<token>>) \o split_whitespace_from(Tail(s), <<>>)
    ELSE split_whitespace_from(Tail(s), Append(token, Head(s)))

split_whitespace(s) == split_whitespace_from(s, <<>>)

\* char::is_uppercase and the case folding of the regex, on the letters of
\* the model
is_uppercase(c) == c \in {"A", "B"}
fold(c) == CASE c = "A" -> "a" [] c = "B" -> "b" [] OTHER -> c

\* RegexBuilder::build on the characters of a token joined with ".*": a "("
\* opens a group that nothing closes
regex_builds(token) == \A k \in 1..Len(token) : token[k] # "("

\* Whether one character of the pattern matches a character: "." matches
\* any character of a name, another character matches itself, or itself up
\* to case
regex_char_matches(p, c, case_insensitive) ==
    \/ p = "."
    \/ p = c
    \/ case_insensitive /\ fold(p) = fold(c)

\* Regex::is_match(name) for the pattern of a token: its characters match
\* characters of the name in this order, anything between them
RECURSIVE is_match(_, _, _)
is_match(token, name, case_insensitive) ==
    IF token = <<>> THEN TRUE
    ELSE IF name = <<>> THEN FALSE
    ELSE IF regex_char_matches(Head(token), Head(name), case_insensitive)
    THEN is_match(Tail(token), Tail(name), case_insensitive)
    ELSE is_match(token, Tail(name), case_insensitive)

\* Workspace::all_symbols(query) after load_all, on the files it left
all_symbols(query) ==
    LET tokens == split_whitespace(query)
        case_insensitive == \A k \in 1..Len(query) : ~is_uppercase(query[k])
        matched(name) == \A k \in 1..Len(tokens) : is_match(tokens[k], name, case_insensitive)
    IN  IF \E k \in 1..Len(tokens) : ~regex_builds(tokens[k]) THEN WsErr
        ELSE WsOk(UNION {{[uri |-> u, name |-> files[u].symbols[k].name,
                           range |-> files[u].symbols[k].range] :
                             k \in {i \in 1..Len(files[u].symbols) :
                                        matched(files[u].symbols[i].name)}} :
                         u \in DOMAIN files})

\* type_references, had it looked for the name as written only
type_references_as_written(file, pkg, typ) ==
    {file.types[k].range : k \in {i \in 1..Len(file.types) : file.types[i].text = typ.name}}

\* File::type_references(pkg, typ): the ranges of the field types that name
\* typ, as written or behind the package and a "."
type_references(file, pkg, typ) ==
    LET matches(t) ==
            \/ t = typ.name
            \/ /\ pkg.some
               /\ strip_prefix(t, pkg.value).some
               /\ strip_prefix(strip_prefix(t, pkg.value).value, <<".">>) = Some(typ.name)
    IN  {file.types[k].range : k \in {i \in 1..Len(file.types) : matches(file.types[i].text)}}

\* File::import_references(name): the ranges of the imports of `name`
import_references(file, name) ==
    {k \in 1..Len(file.imports) : file.imports[k] = name}

\* Workspace::references after load_all, on the files it left
references(uri, ctx) ==
    LET file == get(files, uri)
        found == find_symbol(uri, file.value, ctx.value.typ)
        src == get(files, found.uri)
    IN  IF ~file.some THEN WsErr
        ELSE IF ~ctx.some THEN WsOk(None)
        ELSE IF ctx.value.kind = "Type"
        THEN IF found.panic THEN WsPanic
             ELSE IF ~found.some \/ ~src.some THEN WsErr
             ELSE WsOk(Some(UNION {{[uri |-> u, range |-> r] :
                                       r \in type_references(files[u], src.value.package,
                                                             ctx.value.typ)} :
                                   u \in DOMAIN files}))
        ELSE WsOk(Some(UNION {{[uri |-> u, range |-> r] :
                                  r \in import_references(files[u], ctx.value.name)} :
                              u \in DOMAIN files}))

(***************************************************************************)
(* The node at a position, and the contexts of completion and goto.        *)
(***************************************************************************)
\* tree_sitter::Point of a byte offset that is a char boundary of t
point_of(t, byte) ==
    LET before == SubSeq(t, 1, scalars_before(t, byte))
        breaks == {i \in 1..Len(before) : before[i] = "\n"}
        line_start == IF breaks = {} THEN 0
                      ELSE CHOOSE i \in breaks : \A j \in breaks : j <= i
    IN  [row |-> Cardinality(breaks), column |-> byte - prefix_len(t, line_start)]

\* The order of tree_sitter::Point
point_lt(a, b) == a.row < b.row \/ (a.row = b.row /\ a.column < b.column)

\* The loop of Node::named_descendant_for_point_range(pos, pos) from node i:
\* into the first child that ends after pos, if it starts at or before pos
RECURSIVE descend(_, _, _, _)
descend(t, tr, i, pos) ==
    LET after == {c \in children(tr, i) : point_lt(pos, point_of(t, tr[c].end_byte))}
        c == first_of(after)
    IN  IF after = {} \/ point_lt(pos, point_of(t, tr[c].start_byte)) THEN i
        ELSE descend(t, tr, c, pos)

\* root_node().named_descendant_for_point_range(pos, pos)
named_descendant_for_point_range(t, tr, pos) == descend(t, tr, 1, pos)

\* is_sexp(node, kinds): node and its ancestors have the kinds, the last
\* kind being that of the node, and the outermost of them has a parent
RECURSIVE is_sexp(_, _, _)
is_sexp(tr, i, kinds) ==
    IF kinds = <<>> THEN TRUE
    ELSE IF tr[i].kind # kinds[Len(kinds)] THEN FALSE
    ELSE IF tr[i].parent = 0 THEN FALSE
    ELSE is_sexp(tr, tr[i].parent, SubSeq(kinds, 1, Len(kinds) - 1))

\* Node::is_error() || Node::is_missing()
is_error(tr, i) == tr[i].kind \in {"ERROR", "MISSING"}

RECURSIVE is_top_level_error(_, _)
is_top_level_error(tr, i) ==
    IF ~is_error(tr, i) THEN FALSE
    ELSE IF tr[i].parent = 0 THEN TRUE
    ELSE IF tr[tr[i].parent].kind = "source_file" THEN TRUE
    ELSE IF is_error(tr, tr[i].parent) THEN is_top_level_error(tr, tr[i].parent)
    ELSE FALSE

NoContext == [panic |-> FALSE, ok |-> TRUE, some |-> FALSE]
Context(kind) == [panic |-> FALSE, ok |-> TRUE, some |-> TRUE, kind |-> kind]
NamedContext(kind, name) ==
    [panic |-> name.panic, ok |-> TRUE, some |-> name.some, kind |-> kind,
     name |-> name.value]

\* File::parent_context(node), node 0 being None
RECURSIVE parent_context(_, _, _)
parent_context(t, tr, i) ==
    LET p == tr[i].parent
    IN  IF i = 0 \/ tr[i].kind = "fieldName" THEN NoContext
        ELSE IF tr[i].kind = "enumBody"
        THEN IF p = 0 THEN NoContext ELSE NamedContext("Enum", type_name(t, tr, p))
        ELSE IF tr[i].kind = "messageBody"
        THEN IF p = 0 THEN NoContext ELSE NamedContext("Message", type_name(t, tr, p))
        ELSE IF tr[i].kind = "serviceBody" THEN Context("Rpc")
        ELSE parent_context(t, tr, p)

\* str::lines: the lines of t without their "\n", none after a final "\n"
str_lines(t) ==
    LET with == split_inclusive(t)
    IN  [k \in 1..Len(with) |->
            IF with[k][Len(with[k])] = "\n" THEN SubSeq(with[k], 1, Len(with[k]) - 1)
            ELSE with[k]]

\* str::trim_start
RECURSIVE trim_start(_)
trim_start(s) == IF s # <<>> /\ Head(s) \in {" ", "\n"} THEN trim_start(Tail(s)) ELSE s

KwOption == <<"o", "p", "t", "i", "o", "n", " ">>
KwImport == <<"i", "m", "p", "o", "r", "t", " ">>

\* The branch of completion_context for a cursor outside every node but the
\* root: by the line of the cursor up to it
line_context(t, row, col) ==
    LET line == str_lines(t)[row + 1]
        typed == trim_start(SubSeq(line, 1, Min(col, Len(line))))
        spaces == Cardinality({i \in 1..Len(typed) : typed[i] = " "})
    IN  IF row >= Len(str_lines(t)) THEN [panic |-> FALSE, ok |-> FALSE, some |-> FALSE]
        ELSE IF strip_prefix(typed, KwOption).some THEN Context("Option")
        ELSE IF spaces + 1 <= 1 THEN Context("Keyword")
        ELSE NoContext

\* File::completion_context(row, col): [panic, ok, some, kind, name]
completion_context(t, tr, row, col) ==
    LET pos == [row |-> row, column |-> IF col = 0 THEN 0 ELSE col - 1]
        node == named_descendant_for_point_range(t, tr, pos)
        parent == tr[node].parent
        node_text == get_text(t, tr[node]).value
        parent_text == get_text(t, tr[parent]).value
    IN  IF tr[1].kind # "source_file" THEN Context("Syntax")
        ELSE IF tr[node].kind = "option" THEN Context("Option")
        ELSE IF is_sexp(tr, node, <<"optionName", "fullIdent", "ident">>)
        THEN Context("Option")
        ELSE IF \/ is_error(tr, node) /\ strip_prefix(node_text, KwOption).some
                \/ /\ parent # 0
                   /\ is_error(tr, parent)
                   /\ strip_prefix(parent_text, KwOption).some
        THEN Context("Option")
        ELSE IF is_error(tr, node) /\ strip_prefix(node_text, KwImport).some
        THEN Context("Import")
        ELSE IF is_sexp(tr, node, <<"import", "strLit">>) THEN Context("Import")
        ELSE IF /\ tr[node].kind \in {"ident", "type"}
                /\ (parent = 0 \/ tr[parent].kind # "oneofName")
        THEN parent_context(t, tr, node)
        ELSE IF is_top_level_error(tr, node) THEN Context("Keyword")
        ELSE IF tr[node].kind = "source_file" THEN line_context(t, row, col)
        ELSE NoContext

\* File::field_type(node): the text of the nearest type around the node,
\* node 0 being None
RECURSIVE field_type(_, _, _)
field_type(t, tr, i) ==
    IF i = 0 THEN [panic |-> FALSE, some |-> FALSE, value |-> <<>>]
    ELSE IF tr[i].kind \in {"type", "enumMessageType"}
    THEN [panic |-> get_text(t, tr[i]).panic, some |-> TRUE,
          value |-> get_text(t, tr[i]).value]
    ELSE field_type(t, tr, tr[i].parent)

RECURSIVE trim_quotes(_)
trim_quotes(s) ==
    IF s # <<>> /\ Head(s) = "\"" THEN trim_quotes(Tail(s))
    ELSE IF s # <<>> /\ s[Len(s)] = "\"" THEN trim_quotes(SubSeq(s, 1, Len(s) - 1))
    ELSE s

NoGoto == [panic |-> FALSE, some |-> FALSE]
GotoImport(name) == [panic |-> name.panic, some |-> TRUE, kind |-> "Import",
                     name |-> trim_quotes(name.value)]
GotoType(name, parent) ==
    [panic |-> name.panic \/ parent.panic, some |-> TRUE, kind |-> "Type",
     name |-> name.value,
     parent |-> IF parent.some THEN Some(parent.value) ELSE None]

\* File::type_at(row, column): [panic, some, kind, name, parent]
type_at(t, tr, row, col) ==
    LET node == named_descendant_for_point_range(t, tr, [row |-> row, column |-> col])
        name == field_type(t, tr, node)
    IN  IF tr[node].kind = "strLit" /\ tr[node].parent # 0
           /\ tr[tr[node].parent].kind = "import"
        THEN GotoImport(get_text(t, tr[node]))
        ELSE IF \/ is_sexp(tr, node, <<"enum", "enumName", "ident">>)
                \/ is_sexp(tr, node, <<"message", "messageName", "ident">>)
        THEN GotoType(get_text(t, tr[tr[node].parent]),
                      [panic |-> FALSE, some |-> FALSE, value |-> <<>>])
        ELSE IF tr[node].kind \in {"ident", "enumMessageType"} /\ name.some
        THEN GotoType(name, parent_name(t, tr, node))
        ELSE NoGoto

(***************************************************************************)
(* The texts files start from and the changes editors send.                *)
(***************************************************************************)
\* The text of test_edit_unicode, and what the test expects of its edit
TextUnicodeLine0 ==
    <<"s", "y", "n", "t", "a", "x", " ", "=", " ", "\"", "p", "r", "o", "t", "o", "3", "\"", ";", "\n">>
TextUnicodeLine1 ==
    <<"i", "m", "p", "o", "r", "t", " ", "\"", "e", "x", "a", "m", "p", "U+10400", "e",
      ".", "p", "r", "o", "t", "o", "\"", ";", "\n">>
TextUnicodeLine1Edited ==
    <<"i", "m", "p", "o", "r", "t", " ", "\"", "t", "h", "i", "n", "g",
      ".", "p", "r", "o", "t", "o", "\"", ";", "\n">>
TextUnicodeLine2 ==
    <<"i", "m", "p", "o", "r", "t", " ", "\"", "o", "t", "h", "e", "r",
      ".", "p", "r", "o", "t", "o", "\"", ";", "\n">>
TextUnicode == TextUnicodeLine0 \o TextUnicodeLine1 \o TextUnicodeLine2
TextUnicodeEdited == TextUnicodeLine0 \o TextUnicodeLine1Edited \o TextUnicodeLine2

\* A first line of multi-byte scalars; the nested declarations of
\* test_symbols, with a name declared three times; a last line without "\n"
TextNested ==
    <<"U+10400", "U+00E9", "b", "\n", "m", "e", "s", "s", "a", "g", "e", " ", "B",
      "a", "z", "{", "m", "e", "s", "s", "a", "g", "e", " ", "B", "i",
      "z", "{", "m", "e", "s", "s", "a", "g", "e", " ", "B", "u", "z",
      "{", "}", "}", "e", "n", "u", "m", " ", "B", "a", "z", "{", "}",
      "}", "e", "n", "u", "m", " ", "B", "a", "z", "{", "}", "\n", "U+00E9">>

InitTexts == {<<>>, TextNested, TextUnicode}

\* lsp_types::Position and lsp_types::Range.  Positions reach past the end
\* of every line (character 5) and past the last line of most texts.
Lines == {0, 1, 2}
Characters == {0, 2, 5}
Positions == [line : Lines, character : Characters]
Ranges == [start : Positions, end : Positions]
NewTexts == {<<>>, <<"U+10400", "\n">>}

\* lsp_types::TextDocumentContentChangeEvent; `range` is meaningless when
\* has_range is FALSE (range: None)
RangeChanges == [has_range : {TRUE}, range : Ranges, text : NewTexts]
NoRangeChange ==
    [has_range |-> FALSE,
     range |-> [start |-> [line |-> 0, character |-> 0],
                end |-> [line |-> 0, character |-> 0]],
     text |-> <<"x">>]

\* The change of test_edit_unicode
UnicodeChange ==
    [has_range |-> TRUE,
     range |-> [start |-> [line |-> 1, character |-> 8],
                end |-> [line |-> 1, character |-> 15]],
     text |-> <<"t", "h", "i", "n", "g">>]

\* The ranges of the changes the model delivers: a point after the two
\* multi-byte scalars of a line, a range that ends before its start on one
\* line, one over a line break to past the end of the next line, one that
\* ends on the line above its start, and one within a line to past its end
Pos(l, c) == [line |-> l, character |-> c]
StepRanges ==
    {[start |-> Pos(0, 2), end |-> Pos(0, 2)],
     [start |-> Pos(0, 2), end |-> Pos(0, 0)],
     [start |-> Pos(0, 2), end |-> Pos(1, 5)],
     [start |-> Pos(1, 0), end |-> Pos(0, 2)],
     [start |-> Pos(1, 0), end |-> Pos(1, 5)]}
StepChanges == {c \in RangeChanges : c.range \in StepRanges}

\* A notification of two changes: the first takes text away from line 0 on,
\* the second has no range or puts text into line 1
FirstChanges ==
    {c \in StepChanges : c.range.start.line = 0 /\ c.range.end.line = 1}
SecondChanges ==
    {NoRangeChange} \cup
    {c \in StepChanges : /\ c.range.start.line = 1
                         /\ c.range.end.character = 5
                         /\ c.text # <<>>}

ChangeLists ==
    {<<>>, <<NoRangeChange>>, <<UnicodeChange>>}
        \cup {<<c>> : c \in StepChanges}
        \cup {<<c, d>> : c \in FirstChanges, d \in SecondChanges}

\* The identifiers names are made of, one a string prefix of another, and
\* the dotted names of up to MaxComponents of them
Components == {<<"A">>, <<"B">>, <<"A", "B">>}
ComponentLists == UNION {[1..n -> Components] : n \in 1..MaxComponents}
Names == {join(l) : l \in ComponentLists}

\* The packages of files: a dotted name, or "" for a file without one
Packages == Names \cup {<<>>}

\* A file of the workspace, its symbols given by their names in document
\* order and ranged by their place in it
ProtoFile(package, imports, names) ==
    [package |-> package,
     imports |-> imports,
     symbols |-> [k \in 1..Len(names) |-> [name |-> names[k], range |-> k]]]

\* The file a request comes from and the one file it imports, both below
\* the first search root
MainPath == Path("r1", "main.proto")
DepPath == Path("r1", "dep.proto")

NameA == <<"A">>
NameB == <<"B">>
NameAB == <<"A", ".", "B">>
NameBA == <<"B", ".", "A">>

\* package(): absent, or one of four packages that are equal, around each
\* other or apart
PackageOptions == {None, Some(NameA), Some(NameB), Some(NameAB), Some(NameBA)}

\* symbols() of the imported file: none; message A { message B {} } and
\* message B {}; message B {}
DepSymbolNames == {<<>>, <<NameA, NameAB, NameB>>, <<NameB>>}

\* symbols() of the referring file and the messages around the reference:
\* no symbol; message A { message B {} }; the same between two message B {};
\* with the reference in A or outside
MainSymbolNames == {<<>>, <<NameA, NameAB>>, <<NameB, NameA, NameAB, NameB>>}
Parents == {None, Some(NameA)}

\* The names a reference can have: a dotted name, or one with a leading "."
TypeNames == Names \cup {<<".">> \o n : n \in {NameA, NameB, NameAB, NameBA}}

\* The files of an import graph, and the lists of imports a file can have:
\* up to MaxImports of them, each once
ImportNames == {"a.proto", "b.proto", "c.proto"}
ImportLists ==
    UNION {{l \in [1..n -> ImportNames] : \A i, j \in 1..n : i # j => l[i] # l[j]} :
              n \in 0..MaxImports}
OpenedPath == Path("r1", "a.proto")

\* What a file on disk can hold
OnDisk == {ProtoFile(None, l, <<>>) : l \in ImportLists} \cup {Unreadable}

\* A file with the types of its fields, in document order
ProtoFileT(package, imports, names, types) ==
    [package |-> package,
     imports |-> imports,
     symbols |-> [k \in 1..Len(names) |-> [name |-> names[k], range |-> k]],
     types |-> [k \in 1..Len(types) |-> [text |-> types[k], range |-> k]]]

\* The paths of a workspace with two search roots: entries of a root, files
\* of a directory below it, and one path no file is at
PathA == Path("r1", "a.proto")
PathB == Path("r1", "b.proto")
PathSubA == Path("r1", "sub/a.proto")
PathSubD == Path("r1", "sub/d.proto")
PathNotes == Path("r1", "notes.txt")
PathB2 == Path("r2", "b.proto")
PathE == Path("r2", "e.proto")
PathU == Path("r2", "u.proto")
PathX == Path("r1", "x.proto")
PathNone == Path("r1", "none.proto")

\* What the files hold, on disk and in the editor
WsContent ==
    (PathA :> ProtoFileT(Some(NameA), <<"b.proto", "sub/d.proto">>, <<NameA>>,
                         <<NameB, NameAB, NameA>>))
    @@ (PathB :> ProtoFileT(Some(NameB), <<>>, <<NameB, NameA>>, <<NameBA, NameA>>))
    @@ (PathSubA :> ProtoFileT(Some(NameA), <<"a.proto">>, <<NameA, NameAB, NameB>>,
                               <<NameB>>))
    @@ (PathSubD :> ProtoFileT(None, <<"sub/a.proto">>, <<NameB>>, <<>>))
    @@ (PathNotes :> ProtoFileT(None, <<>>, <<>>, <<>>))
    @@ (PathB2 :> ProtoFileT(None, <<>>, <<NameB>>, <<NameB>>))
    @@ (PathE :> ProtoFileT(Some(NameA), <<>>, <<<<"a">>, <<"a", "B">>>>, <<NameB, NameAB>>))
    @@ (PathU :> Unreadable)
    @@ (PathX :> ProtoFileT(None, <<"e.proto">>, <<>>, <<NameA>>))

\* The files that are on disk or not, and those always there
OptionalPaths == {PathB, PathSubA, PathSubD, PathB2, PathE, PathU}
Disks == {[q \in {PathA, PathNotes} \cup present |-> WsContent[q]] :
             present \in SUBSET OptionalPaths}

\* The files an editor has opened before the request, in this order
OpenedLists == {<<>>, <<PathA>>, <<PathSubA>>, <<PathX>>, <<PathSubA, PathX>>,
                <<PathA, PathX>>}

\* Workspace::open for each of the files, one after the other
RECURSIVE opened(_, _)
opened(uris, fs) ==
    IF uris = <<>> THEN fs
    ELSE LET file == WsContent[Head(uris)]
         IN  opened(Tail(uris),
                    load_imports((Head(uris) :> file) @@ fs, <<file.imports>>, <<>>).files)

\* The urls of requests
RequestUris == {PathA, PathB, PathSubA, PathE, PathX, PathNone}

\* What type_at gives for the position of a request
GotoContexts ==
    {None,
     Some([kind |-> "Type", typ |-> [name |-> NameB, parent |-> None]]),
     Some([kind |-> "Type", typ |-> [name |-> NameA, parent |-> Some(NameA)]]),
     Some([kind |-> "Import", name |-> "b.proto"])}

\* What completion_context gives for the position of a request
CompletionContexts ==
    {[kind |-> k] : k \in {"Err", "None", "Enum", "Keyword", "Import", "Option", "Syntax"}}
    \cup {[kind |-> "Message", name |-> n] : n \in {NameA, NameAB}}

\* The queries of workspace/symbol requests: none, letters of either case,
\* two tokens, and characters the regex syntax gives a meaning to
Queries == {<<>>, <<"a">>, <<"A">>, <<"b">>, <<"a", "b">>, <<"b", "a">>, <<"a", "B">>,
            <<"a", " ", "b">>, <<" ", "B", " ">>, <<"A", ".", "B">>, <<".">>, <<"(">>}

\* The requests of an editor
Requests ==
    {[op |-> "edit", uri |-> u, edit |-> e, file |-> WsContent[PathX]] :
        u \in RequestUris, e \in {"ok", "err", "panic"}}
    \cup {[op |-> "save", uri |-> u, protoc |-> d] : u \in RequestUris, d \in BOOLEAN}
    \cup {[op |-> "symbols", uri |-> u] : u \in RequestUris}
    \cup {[op |-> "goto", uri |-> u, ctx |-> c] : u \in RequestUris, c \in GotoContexts}
    \cup {[op |-> "complete", uri |-> u, ctx |-> c] :
             u \in RequestUris, c \in CompletionContexts}
    \cup {[op |-> "references", uri |-> u, ctx |-> c] :
             u \in RequestUris, c \in GotoContexts}
    \cup {[op |-> "all_symbols", query |-> q] : q \in Queries}

\* A text with an import and fields of a message, and a text with fields
\* of a nested message and of a message nested twice, which both end with
\* "\n"; a text whose last line has no "\n"
TextFields ==
    <<"s", "y", "n", "t", "a", "x", " ", "=", " ", "\"", "p", "r", "o", "t", "o", "3",
      "\"", ";", "\n", "i", "m", "p", "o", "r", "t", " ", "\"", "b", ".", "p", "r", "o",
      "t", "o", "\"", ";", "\n", "m", "e", "s", "s", "a", "g", "e", " ", "F", "o", "o",
      " ", "{", "\n", " ", "B", "a", "r", " ", "b", " ", "=", " ", "1", ";", "\n", " ",
      "s", "t", "r", "i", "n", "g", " ", "s", " ", "=", " ", "2", ";", "\n", "}", "\n">>

TextNestedFields ==
    <<"s", "y", "n", "t", "a", "x", "=", "\"", "p", "r", "o", "t", "o", "3", "\"", ";",
      "\n", "m", "e", "s", "s", "a", "g", "e", " ", "F", "o", "o", " ", "{", "\n", " ",
      "m", "e", "s", "s", "a", "g", "e", " ", "B", "a", "r", " ", "{", "\n", " ", " ",
      "F", "o", "o", ".", "B", "a", "r", " ", "z", " ", "=", " ", "3", ";", "\n", " ",
      " ", "m", "e", "s", "s", "a", "g", "e", " ", "B", "u", "z", " ", "{", " ", "B",
      "a", "r", " ", "c", " ", "=", " ", "4", ";", " ", "}", "\n", " ", "}", "\n", "}",
      "\n">>

TextLastLine ==
    <<"s", "y", "n", "t", "a", "x", " ", "=", " ", "\"", "p", "r", "o", "t", "o", "3",
      "\"", ";", "\n", "m", "e", "s", "s", "a", "g", "e", " ", "A", " ", "{", " ", "B",
      " ", "b", " ", "=", " ", "1", ";", " ", "}", "\n", "e", "n", "u", "m", " ", "B",
      " ", "{", "}">>

CursorTexts == {<<>>, TextFields, TextNestedFields, TextLastLine, TextNested}

\* The positions of a text: a row for each line, also for the empty line
\* after a final "\n", and a column for each scalar of the line and its end
CursorPositions(t) ==
    LET full == split_inclusive(t)
        rows == IF t = <<>> \/ t[Len(t)] = "\n" THEN Len(full) + 1 ELSE Len(full)
        width(r) == IF r > Len(full) THEN 0
                    ELSE IF full[r][Len(full[r])] = "\n" THEN Len(full[r]) - 1
                    ELSE Len(full[r])
    IN  UNION {{[row |-> r - 1, col |-> c] : c \in 0..width(r)} : r \in 1..rows}

(***************************************************************************)
(* The file: File::new, then File::edit and File::symbols in any order.    *)
(***************************************************************************)
NoResponse == [panic |-> FALSE, symbols |-> <<>>]

rn_idle ==
    /\ rn_message = <<>>
    /\ rn_name = <<>>
    /\ rn_result = [done |-> FALSE, value |-> <<>>]

pq_idle ==
    /\ pq_from = <<>>
    /\ pq_to = <<>>
    /\ pq_result = [done |-> FALSE, value |-> <<>>]

\* Workspace::new on an empty disk, before any request
NoRequest == [op |-> "none"]
NoReply == [done |-> FALSE]
ws_idle ==
    /\ disk = <<>>
    /\ files = <<>>
    /\ request = NoRequest
    /\ reply = NoReply
    /\ stack = <<>>
    /\ reads = <<>>

\* No connection: main_loop is not run
srv_idle ==
    /\ inbox = <<>>
    /\ received = 0
    /\ outbox = <<>>
    /\ server = "none"

\* File::new(text)
Init ==
    /\ srv_idle
    /\ text \in InitTexts
    /\ tree = parse(text)
    /\ status = "ok"
    /\ last_op = "new"
    /\ edits = 0
    /\ overflow_checks \in BOOLEAN
    /\ response = NoResponse
    /\ rn_idle
    /\ pq_idle
    /\ ws_idle

\* File::edit(changes)
Edit(changes) ==
    /\ status # "panic"
    /\ edits < MaxEdits
    /\ LET r == edit_changes(text, changes)
       IN  /\ text' = r.text
           /\ tree' = IF r.result = "ok" THEN parse(r.text) ELSE tree
           /\ status' = r.result
    /\ last_op' = "edit"
    /\ edits' = edits + 1
    /\ response' = NoResponse
    /\ UNCHANGED <<srv_vars, overflow_checks, rn_vars, pq_vars, ws_vars>>

\* File::symbols(), collected by the caller
Symbols ==
    /\ status # "panic"
    /\ last_op # "symbols"
    /\ LET r == symbols(text, tree)
       IN  /\ response' = r
           /\ status' = IF r.panic THEN "panic" ELSE "ok"
    /\ last_op' = "symbols"
    /\ UNCHANGED <<srv_vars, text, tree, edits, overflow_checks, rn_vars, pq_vars, ws_vars>>

Next ==
    \/ \E changes \in ChangeLists : Edit(changes)
    \/ Symbols

Spec == Init /\ [][Next]_vars

(***************************************************************************)
(* relative_name on a pair of dotted names, beside a file nothing is done  *)
(* to.                                                                     *)
(***************************************************************************)
\* The file of an empty text that nothing is done to
file_idle ==
    /\ text = <<>>
    /\ tree = parse(text)
    /\ status = "ok"
    /\ last_op = "new"
    /\ edits = 0
    /\ overflow_checks = FALSE
    /\ response = NoResponse

InitRel ==
    /\ srv_idle
    /\ file_idle
    /\ pq_idle
    /\ ws_idle
    /\ rn_message \in Names
    /\ rn_name \in Names
    /\ rn_result = [done |-> FALSE, value |-> <<>>]

\* relative_name(rn_message, rn_name)
RelativeName ==
    /\ ~rn_result.done
    /\ rn_result' = [done |-> TRUE, value |-> relative_name(rn_message, rn_name)]
    /\ UNCHANGED <<srv_vars, file_vars, rn_message, rn_name, pq_vars, ws_vars>>

NextRel == RelativeName

SpecRel == InitRel /\ [][NextRel]_vars

(***************************************************************************)
(* possible_qualifiers on a pair of packages.                              *)
(***************************************************************************)
InitQual ==
    /\ srv_idle
    /\ file_idle
    /\ rn_idle
    /\ ws_idle
    /\ pq_from \in Packages
    /\ pq_to \in Packages
    /\ pq_result = [done |-> FALSE, value |-> <<>>]

\* possible_qualifiers(pq_from, pq_to)
PossibleQualifiers ==
    /\ ~pq_result.done
    /\ pq_result' = [done |-> TRUE, value |-> possible_qualifiers(pq_from, pq_to)]
    /\ UNCHANGED <<srv_vars, file_vars, rn_vars, pq_from, pq_to, ws_vars>>

NextQual == PossibleQualifiers

SpecQual == InitQual /\ [][NextQual]_vars

(***************************************************************************)
(* find_symbol for a reference in a file that imports one other file, both *)
(* loaded.                                                                 *)
(***************************************************************************)
InitFind ==
    /\ srv_idle
    /\ file_idle
    /\ rn_idle
    /\ pq_idle
    /\ \E src \in PackageOptions, imp \in PackageOptions,
          mine \in MainSymbolNames, theirs \in DepSymbolNames :
           LET main == ProtoFile(src, <<"dep.proto">>, mine)
               dep == ProtoFile(imp, <<>>, theirs)
           IN  /\ disk = (MainPath :> main) @@ (DepPath :> dep)
               /\ files = disk
    /\ \E name \in TypeNames, parent \in Parents :
           request = [op |-> "find_symbol", uri |-> MainPath,
                      typ |-> [name |-> name, parent |-> parent]]
    /\ reply = NoReply
    /\ stack = <<>>
    /\ reads = <<>>

\* Workspace::find_symbol(uri, file, typ), as goto calls it
FindSymbol ==
    /\ request.op = "find_symbol"
    /\ ~reply.done
    /\ reply' = [done |-> TRUE,
                 result |-> find_symbol(request.uri, files[request.uri], request.typ)]
    /\ UNCHANGED <<srv_vars, file_vars, rn_vars, pq_vars, disk, files, request, stack, reads>>

NextFind == FindSymbol

SpecFind == InitFind /\ [][NextFind]_vars

(***************************************************************************)
(* Workspace::open of a.proto, with b.proto on disk and c.proto there or   *)
(* not, each importing any of the three.  One step is one pass of a loop   *)
(* over imports, in open or in the innermost open_import.                  *)
(***************************************************************************)
InitOpen ==
    /\ srv_idle
    /\ file_idle
    /\ rn_idle
    /\ pq_idle
    /\ \E b \in OnDisk, c \in OnDisk, c_exists \in BOOLEAN :
           LET ab == (OpenedPath :> ProtoFile(None, <<>>, <<>>))
                         @@ (Path("r1", "b.proto") :> b)
           IN  disk = IF c_exists THEN ab @@ (Path("r1", "c.proto") :> c) ELSE ab
    /\ files = <<>>
    /\ \E a \in ImportLists :
           request = [op |-> "open", uri |-> OpenedPath, file |-> ProtoFile(None, a, <<>>)]
    /\ reply = NoReply
    /\ stack = <<>>
    /\ reads = <<>>

\* Workspace::open(uri, text) up to its loop over the imports
OpenStart ==
    /\ request.op = "open"
    /\ reply = NoReply
    /\ files' = (request.uri :> request.file) @@ files
    /\ stack' = returned(<<request.file.imports>>)
    /\ reply' = IF stack' = <<>> THEN Done(TRUE) ELSE Running
    /\ UNCHANGED <<srv_vars, file_vars, rn_vars, pq_vars, disk, request, reads>>

\* Workspace::open_import(name) for the next import of the innermost loop,
\* up to its own loop over the imports of the file it read
OpenImport ==
    /\ reply = Running
    /\ LET name == Head(Head(stack))
           rest == <<Tail(Head(stack))>> \o Tail(stack)
           path == find_import(name)
           uri == path.value
       IN  IF ~path.some \/ already_loaded(uri)
           THEN /\ stack' = returned(rest)
                /\ reply' = IF stack' = <<>> THEN Done(TRUE) ELSE Running
                /\ UNCHANGED <<files, reads>>
           ELSE /\ reads' = Append(reads, uri)
                /\ IF readable(uri)
                   THEN /\ files' = (uri :> disk[uri]) @@ files
                        /\ stack' = returned(<<disk[uri].imports>> \o rest)
                        /\ reply' = IF stack' = <<>> THEN Done(TRUE) ELSE Running
                   ELSE /\ stack' = <<>>
                        /\ reply' = Done(FALSE)
                        /\ UNCHANGED files
    /\ UNCHANGED <<srv_vars, file_vars, rn_vars, pq_vars, disk, request>>

NextOpen == OpenStart \/ OpenImport

\* The thread that runs open goes on until open returns
SpecOpen == InitOpen /\ [][NextOpen]_vars /\ WF_vars(NextOpen)

(***************************************************************************)
(* One request to a workspace in which an editor has opened some files.    *)
(***************************************************************************)
InitWs ==
    /\ srv_idle
    /\ file_idle
    /\ rn_idle
    /\ pq_idle
    /\ disk \in Disks
    /\ \E uris \in OpenedLists : files = opened(uris, <<>>)
    /\ request \in Requests
    /\ reply = NoReply
    /\ stack = <<>>
    /\ reads = <<>>

\* Workspace::edit(uri, changes)
WsEdit ==
    /\ request.op = "edit"
    /\ ~reply.done
    /\ LET file == get(files, request.uri)
           edited == (request.uri :> request.file) @@ files
           loaded == load_imports(edited, <<request.file.imports>>, <<>>)
       IN  IF ~file.some THEN reply' = WsErr /\ UNCHANGED files
           ELSE IF request.edit = "panic" THEN reply' = WsPanic /\ UNCHANGED files
           ELSE IF request.edit = "err" THEN reply' = WsErr /\ files' = edited
           ELSE /\ files' = loaded.files
                /\ reply' = IF loaded.ok THEN WsOk(None) ELSE WsErr
    /\ UNCHANGED <<srv_vars, file_vars, rn_vars, pq_vars, disk, request, stack, reads>>

\* Workspace::save(uri)
WsSave ==
    /\ request.op = "save"
    /\ ~reply.done
    /\ reply' = IF ~get(files, request.uri).some \/ ~request.protoc THEN WsErr
                ELSE WsOk(None)
    /\ UNCHANGED <<srv_vars, file_vars, rn_vars, pq_vars, disk, files, request, stack, reads>>

\* Workspace::symbols(uri)
WsSymbols ==
    /\ request.op = "symbols"
    /\ ~reply.done
    /\ LET file == get(files, request.uri)
       IN  reply' = IF ~file.some THEN WsErr ELSE WsOk(file.value.symbols)
    /\ UNCHANGED <<srv_vars, file_vars, rn_vars, pq_vars, disk, files, request, stack, reads>>

\* Workspace::goto(uri, pos)
WsGoto ==
    /\ request.op = "goto"
    /\ ~reply.done
    /\ LET file == get(files, request.uri)
           ctx == request.ctx
           found == find_symbol(request.uri, file.value, ctx.value.typ)
       IN  reply' = IF ~file.some THEN WsErr
                    ELSE IF ~ctx.some THEN WsOk(None)
                    ELSE IF ctx.value.kind = "Type"
                    THEN IF found.panic THEN WsPanic ELSE WsOk(found)
                    ELSE WsOk(find_import(ctx.value.name))
    /\ UNCHANGED <<srv_vars, file_vars, rn_vars, pq_vars, disk, files, request, stack, reads>>

\* Workspace::complete(uri, line, character)
WsComplete ==
    /\ request.op = "complete"
    /\ ~reply.done
    /\ LET file == get(files, request.uri)
           ctx == request.ctx.kind
           imports == complete_imports(files, request.uri)
           types == complete_types(request.ctx.name, file.value)
       IN  reply' = IF ~file.some \/ ctx = "Err" THEN WsErr
                    ELSE IF ctx \in {"None", "Enum"} THEN WsOk(None)
                    ELSE IF ctx = "Import"
                    THEN IF imports.ok THEN WsOk(Some(imports.items)) ELSE WsErr
                    ELSE IF ctx = "Message"
                    THEN IF types.panic THEN WsPanic ELSE WsOk(Some(types.items))
                    ELSE IF ctx = "Keyword" THEN WsOk(Some(complete_keywords))
                    ELSE IF ctx = "Option" THEN WsOk(Some(OPTIONS))
                    ELSE WsOk(Some(<<"syntax = \"proto3\";", "syntax = \"proto2\";">>))
    /\ UNCHANGED <<srv_vars, file_vars, rn_vars, pq_vars, disk, files, request, stack, reads>>

\* Workspace::references(params)
WsReferences ==
    /\ request.op = "references"
    /\ ~reply.done
    /\ UNCHANGED <<srv_vars, file_vars, rn_vars, pq_vars, disk, request, stack, reads>>
    /\ \E loaded \in load_all_outcomes(files) :
           /\ files' = loaded.files
           /\ reply' = IF ~loaded.ok THEN WsErr ELSE references(request.uri, request.ctx)'

\* Workspace::all_symbols(query)
WsAllSymbols ==
    /\ request.op = "all_symbols"
    /\ ~reply.done
    /\ UNCHANGED <<srv_vars, file_vars, rn_vars, pq_vars, disk, request, stack, reads>>
    /\ \E loaded \in load_all_outcomes(files) :
           /\ files' = loaded.files
           /\ reply' = IF ~loaded.ok THEN WsErr ELSE all_symbols(request.query)'

NextWs ==
    WsEdit \/ WsSave \/ WsSymbols \/ WsGoto \/ WsComplete \/ WsReferences \/ WsAllSymbols

SpecWs == InitWs /\ [][NextWs]_vars

(***************************************************************************)
(* A file and one query at a position of its text.                         *)
(***************************************************************************)
InitCursor ==
    /\ srv_idle
    /\ text \in CursorTexts
    /\ tree = parse(text)
    /\ status = "ok"
    /\ last_op = "new"
    /\ edits = 0
    /\ overflow_checks = FALSE
    /\ response = NoResponse
    /\ rn_idle
    /\ pq_idle
    /\ disk = <<>>
    /\ files = <<>>
    /\ \E pos \in CursorPositions(text), op \in {"completion_context", "type_at"} :
           request = [op |-> op, row |-> pos.row, col |-> pos.col]
    /\ reply = NoReply
    /\ stack = <<>>
    /\ reads = <<>>

\* File::completion_context(row, col)
CompletionContext ==
    /\ request.op = "completion_context"
    /\ ~reply.done
    /\ reply' = [done |-> TRUE,
                 result |-> completion_context(text, tree, request.row, request.col)]
    /\ UNCHANGED <<srv_vars, file_vars, rn_vars, pq_vars, disk, files, request, stack, reads>>

\* File::type_at(row, column)
TypeAt ==
    /\ request.op = "type_at"
    /\ ~reply.done
    /\ reply' = [done |-> TRUE, result |-> type_at(text, tree, request.row, request.col)]
    /\ UNCHANGED <<srv_vars, file_vars, rn_vars, pq_vars, disk, files, request, stack, reads>>

NextCursor == CompletionContext \/ TypeAt

SpecCursor == InitCursor /\ [][NextCursor]_vars

(***************************************************************************)
(* A session: the requests of an editor that change the file map, open,    *)
(* edit, all_symbols and references, and goto, one after the other in any  *)
(* order, on a disk that stays as it is.  Each request is served in one    *)
(* step.  A panic ends the session.                                        *)
(***************************************************************************)
\* The didOpen notifications of an editor: the file with the text the disk
\* has for it or with another text, and what protoc::diags comes to
OpenRequests ==
    {[op |-> "open", uri |-> u, file |-> f, protoc |-> d] :
        u \in {PathA, PathSubA, PathX},
        f \in {WsContent[PathSubA], WsContent[PathX]},
        d \in BOOLEAN}

\* The disks of a session: every file; every file that can be read; those
\* without the file below a directory that a.proto imports; b.proto in the
\* second search root only; files of the first search root only; no file
\* besides a.proto
SessionDisks ==
    {[q \in {PathA, PathNotes} \cup present |-> WsContent[q]] :
        present \in {OptionalPaths,
                     OptionalPaths \ {PathU},
                     OptionalPaths \ {PathU, PathSubD},
                     {PathB2, PathE},
                     {PathB, PathSubA, PathSubD},
                     {}}}

SessionRequests ==
    OpenRequests
    \cup {r \in Requests : r.op = "edit" /\ r.uri \in {PathA, PathSubA, PathNone}}
    \cup {r \in Requests : r.op = "references" /\ r.uri \in {PathA, PathSubA, PathNone}}
    \cup {r \in Requests : r.op = "all_symbols" /\ r.query \in {<<>>, <<"(">>}}
    \cup {r \in Requests : r.op = "goto" /\ r.uri \in {PathA, PathSubA}}

\* Workspace::new(proto_paths)
InitSession ==
    /\ srv_idle
    /\ file_idle
    /\ rn_idle
    /\ pq_idle
    /\ disk \in SessionDisks
    /\ files = <<>>
    /\ request = NoRequest
    /\ reply = NoReply
    /\ stack = <<>>
    /\ reads = <<>>

\* No request has ended in a panic
serving == IF reply = NoReply THEN TRUE ELSE ~reply.panic

\* Workspace::open(uri, text): the file is inserted, then open_import runs
\* for its imports; the diagnostics of protoc are what it returns
SessionOpen ==
    /\ serving
    /\ \E r \in {q \in SessionRequests : q.op = "open"} :
           LET loaded == load_imports(insert(files, r.uri, r.file), <<r.file.imports>>, <<>>)
           IN  /\ request' = r
               /\ files' = loaded.files
               /\ reply' = IF loaded.ok /\ r.protoc THEN WsOk(None) ELSE WsErr
    /\ UNCHANGED <<srv_vars, file_vars, rn_vars, pq_vars, disk, stack, reads>>

\* Workspace::edit(uri, changes)
SessionEdit ==
    /\ serving
    /\ \E r \in {q \in SessionRequests : q.op = "edit"} :
           LET file == get(files, r.uri)
               edited == insert(files, r.uri, r.file)
               loaded == load_imports(edited, <<r.file.imports>>, <<>>)
           IN  /\ request' = r
               /\ IF ~file.some THEN reply' = WsErr /\ UNCHANGED files
                  ELSE IF r.edit = "panic" THEN reply' = WsPanic /\ UNCHANGED files
                  ELSE IF r.edit = "err" THEN reply' = WsErr /\ files' = edited
                  ELSE /\ files' = loaded.files
                       /\ reply' = IF loaded.ok THEN WsOk(None) ELSE WsErr
    /\ UNCHANGED <<srv_vars, file_vars, rn_vars, pq_vars, disk, stack, reads>>

\* Workspace::all_symbols(query)
SessionAllSymbols ==
    /\ serving
    /\ UNCHANGED <<srv_vars, file_vars, rn_vars, pq_vars, disk, stack, reads>>
    /\ \E r \in {q \in SessionRequests : q.op = "all_symbols"} :
       \E loaded \in load_all_outcomes(files) :
           /\ request' = r
           /\ files' = loaded.files
           /\ reply' = IF ~loaded.ok THEN WsErr ELSE all_symbols(r.query)'

\* Workspace::references(params)
SessionReferences ==
    /\ serving
    /\ UNCHANGED <<srv_vars, file_vars, rn_vars, pq_vars, disk, stack, reads>>
    /\ \E r \in {q \in SessionRequests : q.op = "references"} :
       \E loaded \in load_all_outcomes(files) :
           /\ request' = r
           /\ files' = loaded.files
           /\ reply' = IF ~loaded.ok THEN WsErr ELSE references(r.uri, r.ctx)'

\* Workspace::goto(uri, pos)
SessionGoto ==
    /\ serving
    /\ \E r \in {q \in SessionRequests : q.op = "goto"} :
           LET file == get(files, r.uri)
               found == find_symbol(r.uri, file.value, r.ctx.value.typ)
           IN  /\ request' = r
               /\ reply' = IF ~file.some THEN WsErr
                           ELSE IF ~r.ctx.some THEN WsOk(None)
                           ELSE IF r.ctx.value.kind = "Type"
                           THEN IF found.panic THEN WsPanic ELSE WsOk(found)
                           ELSE WsOk(find_import(r.ctx.value.name))
    /\ UNCHANGED <<srv_vars, file_vars, rn_vars, pq_vars, disk, files, stack, reads>>

NextSession ==
    SessionOpen \/ SessionEdit \/ SessionAllSymbols \/ SessionReferences \/ SessionGoto

SpecSession == InitSession /\ [][NextSession]_vars

(***************************************************************************)
(* Completion of a field type inside a message of a file, and goto on one  *)
(* of the labels it offers for the symbols of the file, written as the     *)
(* type of a field of that message.                                        *)
(***************************************************************************)
\* symbols() of the file: message A { message B {} }, alone, before a
\* message B, before an enum AB, and with a message A inside A.B
LabelSymbolNames ==
    {<<NameA, NameAB>>,
     <<NameA, NameAB, NameB>>,
     <<NameA, NameAB, <<"A", "B">>>>,
     <<NameA, NameAB, NameAB \o <<".">> \o NameA>>,
     <<NameB, NameA, NameAB, NameB>>}

InitLabel ==
    /\ srv_idle
    /\ file_idle
    /\ rn_idle
    /\ pq_idle
    /\ \E src \in {None, Some(NameA)}, imp \in {None, Some(NameA), Some(NameB)},
          mine \in LabelSymbolNames, theirs \in DepSymbolNames :
           LET main == ProtoFile(src, <<"dep.proto">>, mine)
               dep == ProtoFile(imp, <<>>, theirs)
           IN  /\ disk = (MainPath :> main) @@ (DepPath :> dep)
               /\ files = disk
               /\ \E b, k \in 1..Len(mine) :
                      request = [op |-> "complete", uri |-> MainPath,
                                 ctx |-> [kind |-> "Message", name |-> mine[b]],
                                 symbol |-> k]
    /\ reply = NoReply
    /\ stack = <<>>
    /\ reads = <<>>

\* Workspace::complete(uri, line, character) at a position of the message
\* request.ctx.name: the labels of complete_types
CompleteTypes ==
    /\ request.op = "complete"
    /\ reply = NoReply
    /\ LET types == complete_types(request.ctx.name, files[request.uri])
       IN  reply' = [done |-> FALSE, panic |-> types.panic, items |-> types.items]
    /\ UNCHANGED <<srv_vars, file_vars, rn_vars, pq_vars, disk, files, request, stack, reads>>

\* Workspace::goto on the label offered for the symbol request.symbol, as
\* type_at gives it for a field of the message: the label as name, the
\* message as parent
GotoLabel ==
    /\ request.op = "complete"
    /\ reply # NoReply
    /\ ~reply.done
    /\ ~reply.panic
    /\ LET label == reply.items[request.symbol]
           typ == [name |-> label, parent |-> Some(request.ctx.name)]
       IN  reply' = [done |-> TRUE, label |-> label,
                     result |-> find_symbol(request.uri, files[request.uri], typ)]
    /\ UNCHANGED <<srv_vars, file_vars, rn_vars, pq_vars, disk, files, request, stack, reads>>

NextLabel == CompleteTypes \/ GotoLabel

SpecLabel == InitLabel /\ [][NextLabel]_vars

(***************************************************************************)
(* main_loop: the server takes the messages of the connection one after    *)
(* the other.  A message is given by what the loop looks at: its kind, its *)
(* method, whether its params deserialize, the scheme of its url, and what *)
(* the protoc run on its file comes to.  The writer thread takes every     *)
(* message given to connection.sender.                                     *)
(***************************************************************************)
MaxMessages == 3

Shutdown == "shutdown"
Exit == "exit"
DocumentSymbol == "textDocument/documentSymbol"
Hover == "textDocument/hover"
DidOpen == "textDocument/didOpen"
DidSave == "textDocument/didSave"
DidChange == "textDocument/didChange"
PublishDiagnostics == "textDocument/publishDiagnostics"

\* protoc on the file: no error; errors on lines parse_diag reads; an error
\* without a source or with a line parse_diag cannot read
ProtocOutcomes == {"ok", "errors", "unreadable"}

Msg(kind, method, params_ok, scheme, protoc) ==
    [kind |-> kind, id |-> 0, method |-> method, params_ok |-> params_ok,
     scheme |-> scheme, protoc |-> protoc]

\* The messages of a client, before their ids are given
Messages ==
    {Msg("Request", Shutdown, TRUE, "file", "ok"),
     Msg("Request", Hover, TRUE, "file", "ok"),
     Msg("Request", DocumentSymbol, FALSE, "file", "ok"),
     Msg("Response", "", TRUE, "file", "ok"),
     Msg("Notification", Exit, TRUE, "file", "ok"),
     Msg("Notification", DidChange, TRUE, "file", "ok"),
     Msg("Notification", DidOpen, FALSE, "file", "ok"),
     Msg("Notification", DidOpen, TRUE, "untitled", "ok")}
    \cup {Msg("Request", DocumentSymbol, TRUE, "file", o) : o \in ProtocOutcomes}
    \cup {Msg("Notification", DidOpen, TRUE, "file", o) : o \in ProtocOutcomes}
    \cup {Msg("Notification", DidSave, TRUE, "file", o) : o \in {"ok", "unreadable"}}

\* What a client sends: up to `max` messages, the k-th with id k
Inboxes(max) ==
    UNION {{[k \in 1..n |-> [l[k] EXCEPT !.id = k]] : l \in [1..n -> Messages]} :
              n \in 0..max}

\* get_symbols(uri): whether it returns Ok
get_symbols(msg) == msg.protoc = "ok"

\* on_open(uri): [ok, diags], diags being whether the notification carries
\* diagnostics
on_open(msg) ==
    IF msg.scheme # "file" THEN [ok |-> FALSE, diags |-> FALSE]
    ELSE IF msg.protoc = "ok" THEN [ok |-> TRUE, diags |-> FALSE]
    ELSE IF msg.protoc = "errors" THEN [ok |-> TRUE, diags |-> TRUE]
    ELSE [ok |-> FALSE, diags |-> FALSE]

ResponseTo(id) == [kind |-> "Response", id |-> id]
DiagnosticsOf(diags) == [kind |-> "Notification", method |-> PublishDiagnostics,
                         diags |-> diags]

\* The message the loop takes next
msg_next == inbox[received + 1]

\* main(), once connection.initialize has returned
InitServer ==
    /\ file_idle
    /\ rn_idle
    /\ pq_idle
    /\ ws_idle
    /\ inbox \in Inboxes(MaxMessages)
    /\ received = 0
    /\ outbox = <<>>
    /\ server = "running"

\* connection.handle_shutdown(&req) on the shutdown request: it answers the
\* request and takes the next message, which has to be the exit notification
HandleShutdown ==
    /\ server = "running"
    /\ received < Len(inbox)
    /\ msg_next.kind = "Request"
    /\ msg_next.method = Shutdown
    /\ outbox' = Append(outbox, ResponseTo(msg_next.id))
    /\ received' = Min(received + 2, Len(inbox))
    /\ server' = IF /\ received + 2 <= Len(inbox)
                    /\ inbox[received + 2].kind = "Notification"
                    /\ inbox[received + 2].method = Exit
                 THEN "returned_ok" ELSE "returned_err"
    /\ UNCHANGED <<file_vars, rn_vars, pq_vars, ws_vars, inbox>>

\* One pass of the loop on a request other than shutdown
HandleRequest ==
    /\ server = "running"
    /\ received < Len(inbox)
    /\ msg_next.kind = "Request"
    /\ msg_next.method # Shutdown
    /\ received' = received + 1
    /\ IF msg_next.method # DocumentSymbol
       THEN UNCHANGED <<outbox, server>>
       ELSE IF ~msg_next.params_ok
       THEN server' = "panicked" /\ UNCHANGED outbox
       ELSE IF ~get_symbols(msg_next)
       THEN server' = "returned_err" /\ UNCHANGED outbox
       ELSE outbox' = Append(outbox, ResponseTo(msg_next.id)) /\ UNCHANGED server
    /\ UNCHANGED <<file_vars, rn_vars, pq_vars, ws_vars, inbox>>

\* One pass of the loop on a response
HandleResponse ==
    /\ server = "running"
    /\ received < Len(inbox)
    /\ msg_next.kind = "Response"
    /\ received' = received + 1
    /\ UNCHANGED <<file_vars, rn_vars, pq_vars, ws_vars, inbox, outbox, server>>

\* One pass of the loop on a notification
HandleNotification ==
    /\ server = "running"
    /\ received < Len(inbox)
    /\ msg_next.kind = "Notification"
    /\ received' = received + 1
    /\ IF msg_next.method \notin {DidOpen, DidSave} \/ ~msg_next.params_ok
       THEN UNCHANGED <<outbox, server>>
       ELSE IF ~on_open(msg_next).ok
       THEN server' = "returned_err" /\ UNCHANGED outbox
       ELSE /\ outbox' = Append(outbox, DiagnosticsOf(on_open(msg_next).diags))
            /\ UNCHANGED server
    /\ UNCHANGED <<file_vars, rn_vars, pq_vars, ws_vars, inbox>>

\* The receiver has no message left and the client has closed the
\* connection: the loop ends and main_loop returns Ok(())
LoopEnd ==
    /\ server = "running"
    /\ received = Len(inbox)
    /\ server' = "returned_ok"
    /\ UNCHANGED <<file_vars, rn_vars, pq_vars, ws_vars, inbox, received, outbox>>

NextServer ==
    HandleShutdown \/ HandleRequest \/ HandleResponse \/ HandleNotification \/ LoopEnd

\* The thread of main_loop goes on until main_loop returns
SpecServer == InitServer /\ [][NextServer]_vars /\ WF_vars(NextServer)

(***************************************************************************)
(* Claims about File::edit.                                                *)
(***************************************************************************)
\* C1: after any sequence of File::edit calls, whether a call returned Ok or
\* Err, the tree of the file is the parse of its current text.
C1_TreeIsParseOfText == status # "panic" => tree = parse(text)

\* The line of a position that lies on a line of the text, without its "\n"
line_content(t, pos) ==
    LET line == split_inclusive(t)[pos.line + 1]
    IN  IF line[Len(line)] = "\n" THEN SubSeq(line, 1, Len(line) - 1) ELSE line

on_a_line(t, pos) == pos.line < Len(split_inclusive(t))

\* The start byte File::edit computes for a position
start_byte_of(t, pos) ==
    change_bytes(split_inclusive(t), [start |-> pos, end |-> pos]).start_byte

\* The byte offset of the first scalar of the line of a position
line_start(t, pos) == lines_len(split_inclusive(t), 1, pos.line)

\* C2: the column of a position is consumed in UTF-16 code units: where the
\* leading k scalars of the line weigh exactly `character` code units (one
\* per BMP scalar, two per scalar outside the BMP), the byte offset is the
\* start of the line plus the UTF-8 length of those k scalars.
C2_ColumnsAreUtf16Units ==
    \A pos \in Positions :
        on_a_line(text, pos) =>
            \A k \in 0..Len(line_content(text, pos)) :
                prefix_utf16(line_content(text, pos), k) = pos.character =>
                    start_byte_of(text, pos)
                        = line_start(text, pos) + prefix_len(line_content(text, pos), k)

\* C3: on the text of test_edit_unicode, replacing columns 8 to 15 of the line
\* import "examp<U+10400>e.proto"; by `thing` gives import "thing.proto"; and
\* leaves the rest of the text as it was.
C3_UnicodeEdit ==
    text = TextUnicode =>
        edit_changes(text, <<UnicodeChange>>) = [result |-> "ok", text |-> TextUnicodeEdited]

C3_Witness ==
    /\ text = TextUnicodeEdited
    /\ tree = parse(TextUnicodeEdited)
    /\ last_op = "edit"
    /\ status = "ok"
    /\ edits = 1

\* C4: a column greater than the length of its line gives the byte offset of
\* the end of the line's content, before its "\n" if it has one.
C4_ColumnPastEndIsEndOfLine ==
    \A pos \in Positions :
        (/\ on_a_line(text, pos)
         /\ pos.character > prefix_utf16(line_content(text, pos),
                                         Len(line_content(text, pos))))
        => start_byte_of(text, pos)
               = line_start(text, pos) + str_len(line_content(text, pos))

\* C5: on every text that new() or edit() leaves, a list of two changes with
\* ranges gives the text that the two changes give in two calls, the second
\* change being read against the text the first one left; when the first call
\* aborts, so does the call with both.  The tree an edit of changes with
\* ranges leaves is the parse of the text after the last change.
C5_ChangesCompose ==
    /\ last_op \in {"new", "edit"} =>
           \A c \in FirstChanges :
               LET first == edit_changes(text, <<c>>)
               IN  \A d \in {e \in StepChanges : e.text # <<>>} :
                       edit_changes(text, <<c, d>>)
                           = IF first.result = "ok" THEN edit_changes(first.text, <<d>>)
                             ELSE first
    /\ (last_op = "edit" /\ status = "ok") => tree = parse(text)

\* A state reached by an edit in which the order of two changes matters
C5_Witness ==
    /\ last_op = "edit"
    /\ status = "ok"
    /\ \E c \in FirstChanges, d \in {e \in StepChanges : e.text # <<>>} :
           /\ edit_changes(text, <<c, d>>).result = "ok"
           /\ edit_changes(text, <<d, c>>).result = "ok"
           /\ edit_changes(text, <<c, d>>).text # edit_changes(text, <<d, c>>).text
           /\ edit_changes(text, <<c, d>>).text # edit_changes(text, <<c>>).text

\* C6: File::edit never aborts, and a change that carries a range, whatever
\* its positions, is applied and the call returns Ok.
C6_RangedChangesNeverAbort ==
    /\ ~(last_op = "edit" /\ status = "panic")
    /\ \A c \in RangeChanges : edit_changes(text, <<c>>).result = "ok"

\* C7: on every text that new() or edit() leaves, the start and end byte
\* offsets File::edit computes for a range are char boundaries of the text, so
\* that replace_range never splits a scalar.
C7_OffsetsAreCharBoundaries ==
    last_op \in {"new", "edit"} =>
        LET lines == split_inclusive(text)
        IN  \A r \in Ranges :
                LET b == change_bytes(lines, r)
                IN  /\ is_char_boundary(text, b.start_byte)
                    /\ is_char_boundary(text, b.end_byte)

\* A state reached by an edit that put a scalar of four bytes after one of
\* two, in which a range starts between the two and ends right after the
\* scalar of two bytes that ends the text
C7_Witness ==
    /\ last_op = "edit"
    /\ status = "ok"
    /\ \E r \in Ranges, i \in 1..Len(text) :
           LET b == change_bytes(split_inclusive(text), r)
           IN  /\ i + 1 < Len(text)
               /\ text[i] = "U+00E9"
               /\ text[i + 1] = "U+10400"
               /\ text[Len(text)] = "U+00E9"
               /\ b.start_byte = prefix_len(text, i)
               /\ b.end_byte = str_len(text)

\* C25: when File::edit returns an error for a list of changes, the text of
\* the file is what it was before the call: no change of the list stays
\* applied.
C25_FailedEditKeepsText ==
    [][(last_op' = "edit" /\ status' = "err") => text' = text]_vars

\* C25 for the lists whose first change is the one that fails
C25_FailedFirstChangeKeepsText ==
    [][\A changes \in ChangeLists :
          (Edit(changes) /\ status' = "err" /\ ~Head(changes).has_range) => text' = text]_vars

(***************************************************************************)
(* Claims about File::symbols.                                             *)
(***************************************************************************)
\* The text a node covers, taken by scalars
node_text(t, node) ==
    SubSeq(t, scalars_before(t, node.start_byte) + 1, scalars_before(t, node.end_byte))

\* The nearest message around node i, 0 if there is none
RECURSIVE enclosing_message(_, _)
enclosing_message(tr, i) ==
    IF tr[i].parent = 0 THEN 0
    ELSE IF tr[tr[i].parent].kind = "message" THEN tr[i].parent
    ELSE enclosing_message(tr, tr[i].parent)

\* The name of declaration i, after the names of the messages around it,
\* outermost first
RECURSIVE dotted_name(_, _, _)
dotted_name(t, tr, i) ==
    LET own == node_text(t, tr[captured_id(tr, i)])
        outer == enclosing_message(tr, i)
    IN  IF outer = 0 THEN own ELSE dotted_name(t, tr, outer) \o <<".">> \o own

declarations(tr) == {i \in 1..Len(tr) : tr[i].kind \in {"message", "enum"}}

\* The k-th declaration of the tree in document order
nth_declaration(tr, k) ==
    CHOOSE i \in declarations(tr) : Cardinality({j \in declarations(tr) : j <= i}) = k

\* C8: symbols() returns one symbol per message and per enum node of the tree,
\* in document order, with the kind and the range of the node and the name of
\* the node after the names of all messages around it, joined with ".".
C8_OneSymbolPerDeclaration ==
    last_op = "symbols" =>
        /\ ~response.panic
        /\ Len(response.symbols) = Cardinality(declarations(tree))
        /\ \A k \in 1..Len(response.symbols) :
               LET i == nth_declaration(tree, k)
               IN  response.symbols[k] =
                       [kind |-> IF tree[i].kind = "message" THEN "Message" ELSE "Enum",
                        name |-> dotted_name(text, tree, i),
                        range |-> [start_byte |-> tree[i].start_byte,
                                   end_byte |-> tree[i].end_byte]]

\* C8 for a file whose tree is the parse of its text
C8_OneSymbolPerDeclarationOfFreshTree == tree = parse(text) => C8_OneSymbolPerDeclaration

\* C9 as stated: no two symbols that symbols() returns have the same name.
C9_NamesAreUnique ==
    last_op = "symbols" =>
        \A i, j \in 1..Len(response.symbols) :
            i # j => response.symbols[i].name # response.symbols[j].name

\* C9, amended: no two symbols that symbols() returns have the same range
\* (they are different declarations); their names may be the same.
C9_RangesAreUnique ==
    last_op = "symbols" =>
        \A i, j \in 1..Len(response.symbols) :
            i # j => response.symbols[i].range # response.symbols[j].range

\* symbols() has returned two symbols of the same name
C9_Witness ==
    /\ last_op = "symbols"
    /\ status = "ok"
    /\ \E i, j \in 1..Len(response.symbols) :
           /\ i # j
           /\ response.symbols[i].name = response.symbols[j].name
           /\ response.symbols[i].kind # response.symbols[j].kind

(***************************************************************************)
(* Claims about relative_name.                                             *)
(***************************************************************************)
\* The number of leading components that a and b have in common
RECURSIVE common_components(_, _)
common_components(a, b) ==
    IF a = <<>> \/ b = <<>> \/ Head(a) # Head(b) THEN 0
    ELSE 1 + common_components(Tail(a), Tail(b))

\* C10: for dotted names base and name, relative_name(base, name) is the last
\* component of name when all components of name lead base; otherwise it is
\* name without the components it shares with the start of base and without
\* the dot after them, which is name itself when they share none.
C10_RelativeName ==
    rn_result.done =>
        LET name == split_dot(rn_name)
            p == common_components(name, split_dot(rn_message))
        IN  rn_result.value =
                IF p = Len(name) THEN name[Len(name)]
                ELSE join(SubSeq(name, p + 1, Len(name)))

\* relative_name has answered for a name that shares two of its three
\* components with the start of a base that goes on differently
C10_Witness ==
    /\ rn_result.done
    /\ Len(split_dot(rn_name)) = 3
    /\ Len(split_dot(rn_message)) = 3
    /\ common_components(split_dot(rn_name), split_dot(rn_message)) = 2
    /\ rn_result.value = split_dot(rn_name)[3]

(***************************************************************************)
(* Claims about possible_qualifiers.                                       *)
(***************************************************************************)
\* The first k components of a dotted name, joined
dotted_prefix(name, k) == join(SubSeq(split_dot(name), 1, k))

\* s without a leading p, and without one "." after it
remainder_after(s, p) ==
    LET rest == SubSeq(s, Len(p) + 1, Len(s))
    IN  IF rest # <<>> /\ rest[1] = "." THEN Tail(rest) ELSE rest

\* Whether s starts with p
starts_with(s, p) == Len(p) <= Len(s) /\ SubSeq(s, 1, Len(p)) = p

\* The list C11 describes for (from, to), to not empty
qualifiers_by_prefix(from, to) ==
    LET n == Len(split_dot(to))
        longest_first == [i \in 1..n |-> dotted_prefix(to, n + 1 - i)]
        leads(p) == starts_with(from, p)
        kept == SelectSeq(longest_first, leads)
    IN  [i \in 1..Len(kept) |-> remainder_after(from, kept[i])] \o <<from>>

\* C11: possible_qualifiers(from, to) is, for the dotted prefixes of to from
\* longest to shortest that from starts with, what is left of from after the
\* prefix and one following ".", and then from itself; it is [from] when to
\* is empty.  So it is never empty, ends with from, and its elements are in
\* ascending order of length.
C11_PossibleQualifiers ==
    pq_result.done =>
        LET res == pq_result.value
        IN  /\ res = IF pq_to = <<>> THEN <<pq_from>>
                     ELSE qualifiers_by_prefix(pq_from, pq_to)
            /\ res # <<>>
            /\ res[Len(res)] = pq_from
            /\ \A i \in 1..(Len(res) - 1) : Len(res[i]) <= Len(res[i + 1])

\* possible_qualifiers has answered for a package of three components, of
\* which the package referred from shares the first only: [B.AB, A.B.AB]
C11_Witness ==
    /\ pq_result.done
    /\ Len(split_dot(pq_from)) = 3
    /\ Len(split_dot(pq_to)) = 2
    /\ Len(pq_result.value) = 2
    /\ Len(pq_result.value[1]) < Len(pq_result.value[2])
    /\ pq_result.value[1] # <<>>

\* C28: every element of possible_qualifiers(from, to) is the empty string
\* or a suffix of from that begins at a component boundary: from itself, or
\* what follows one of its "." separators.
C28_QualifiersAtComponentBoundary ==
    pq_result.done =>
        \A k \in 1..Len(pq_result.value) :
            LET q == pq_result.value[k]
            IN  \/ q = <<>>
                \/ q = pq_from
                \/ \E i \in 1..Len(pq_from) :
                       pq_from[i] = "." /\ q = SubSeq(pq_from, i + 1, Len(pq_from))

\* C28 for the packages of which `to` ends where a component of `from` ends
C28_QualifiersOfWholeComponents ==
    (pq_result.done /\ \A n \in 1..Len(pq_to) :
                          (n <= Len(pq_from) /\ SubSeq(pq_from, 1, n) = SubSeq(pq_to, 1, n)
                              /\ (n = Len(pq_to) \/ pq_to[n + 1] = "."))
                          => (n = Len(pq_from) \/ pq_from[n + 1] = ".")) =>
        \A k \in 1..Len(pq_result.value) :
            LET q == pq_result.value[k]
            IN  \/ q = <<>>
                \/ q = pq_from
                \/ \E i \in 1..Len(pq_from) :
                       pq_from[i] = "." /\ q = SubSeq(pq_from, i + 1, Len(pq_from))

(***************************************************************************)
(* Claims about Workspace::find_symbol.                                    *)
(***************************************************************************)
\* Whether no symbol of the referring file answers the reference
not_local(file, typ) ==
    \A k \in 1..Len(file.symbols) :
        /\ file.symbols[k].name # typ.name
        /\ typ.parent.some => file.symbols[k].name # typ.parent.value \o <<".">> \o typ.name

\* Whether C12 lets `name`, used in a file of package src, refer to the
\* symbol `sym` of an imported file of package imp
refers_to(name, sym, imp, src) ==
    IF imp.some /\ imp # src
    THEN \E k \in 1..Len(possible_qualifiers(imp.value, unwrap_or(src, <<>>))) :
             name = possible_qualifiers(imp.value, unwrap_or(src, <<>>))[k]
                        \o <<".">> \o sym.name
    ELSE name = sym.name

\* C12: for a reference no symbol of its own file answers, find_symbol
\* answers with a symbol S of the imported file exactly when the name is
\* q.S for a q of possible_qualifiers(P_imp, P_src or "") (P_imp present and
\* not P_src), or is the name of S (packages equal, or the import without a
\* package): what it returns is such a symbol, and it returns one whenever
\* there is one.
C12_ImportedSymbol ==
    (reply.done /\ request.op = "find_symbol"
        /\ not_local(files[MainPath], request.typ)) =>
        LET dep == files[DepPath]
            name == request.typ.name
            src == files[MainPath].package
            res == reply.result
        IN  /\ ~res.panic
            /\ res.some =>
                   /\ res.uri = DepPath
                   /\ refers_to(name, dep.symbols[res.range], dep.package, src)
            /\ (\E k \in 1..Len(dep.symbols) :
                    refers_to(name, dep.symbols[k], dep.package, src)) => res.some

\* find_symbol has resolved B.A.B from package A to the nested message A.B
\* of an import of package B, as bar.One.Two resolves from package main
C12_Witness ==
    /\ reply.done
    /\ request.op = "find_symbol"
    /\ files[MainPath].package = Some(NameA)
    /\ files[DepPath].package = Some(NameB)
    /\ request.typ.name = NameB \o <<".">> \o NameAB
    /\ reply.result.some
    /\ reply.result.uri = DepPath
    /\ files[DepPath].symbols[reply.result.range].name = NameAB

\* C22: find_symbol returns the first match in this order, and none when
\* nothing matches: the symbol of the referring file named parent.name when
\* there is a parent; the symbol of the referring file named name; a
\* matching symbol of the import.  Within a file the first symbol in
\* document order wins.
C22_FindSymbolOrder ==
    (reply.done /\ request.op = "find_symbol") =>
        LET main == files[MainPath]
            dep == files[DepPath]
            typ == request.typ
            res == reply.result
            first(S) == CHOOSE k \in S : \A j \in S : k <= j
            named(n) == {k \in 1..Len(main.symbols) : main.symbols[k].name = n}
            nested == IF typ.parent.some
                      THEN named(typ.parent.value \o <<".">> \o typ.name)
                      ELSE {}
            own == named(typ.name)
            imported == {k \in 1..Len(dep.symbols) :
                            refers_to(typ.name, dep.symbols[k], dep.package, main.package)}
            is(uri, k) == res.some /\ res.uri = uri /\ res.range = k
        IN  /\ ~res.panic
            /\ IF nested # {} THEN is(MainPath, first(nested))
               ELSE IF own # {} THEN is(MainPath, first(own))
               ELSE IF imported # {} THEN is(DepPath, first(imported))
               ELSE ~res.some

\* find_symbol has resolved B, used inside message A, to A.B, the third
\* symbol of a file whose first symbol is a message B, which the import
\* declares too
C22_Witness ==
    /\ reply.done
    /\ request.op = "find_symbol"
    /\ request.typ = [name |-> NameB, parent |-> Some(NameA)]
    /\ Len(files[MainPath].symbols) = 4
    /\ files[MainPath].symbols[1].name = NameB
    /\ \E k \in 1..Len(files[DepPath].symbols) : files[DepPath].symbols[k].name = NameB
    /\ reply.result.some
    /\ reply.result.uri = MainPath
    /\ reply.result.range = 3

(***************************************************************************)
(* Claims about Workspace::open.                                           *)
(***************************************************************************)
\* C13: open returns, whatever the files import (themselves and each other
\* included), and while it runs no path is read twice and what was read is
\* what was inserted besides the opened file.
C13_OpenTerminates ==
    /\ <>(reply.done)
    /\ [](\A i, j \in 1..Len(reads) : i # j => reads[i] # reads[j])
    /\ [](\A i \in 1..Len(reads) : readable(reads[i]) => reads[i] \in DOMAIN files)

\* open has returned Ok after reading b.proto and c.proto, which import each
\* other, themselves and the opened file
C13_Witness ==
    /\ reply = Done(TRUE)
    /\ request.op = "open"
    /\ Len(reads) = 2
    /\ \E p, q \in DOMAIN disk :
           /\ p # q /\ p # OpenedPath /\ q # OpenedPath
           /\ q.rel \in {disk[p].imports[k] : k \in 1..Len(disk[p].imports)}
           /\ p.rel \in {disk[q].imports[k] : k \in 1..Len(disk[q].imports)}
           /\ p.rel \in {disk[p].imports[k] : k \in 1..Len(disk[p].imports)}


(***************************************************************************)
(* Claims about the requests of a workspace.                               *)
(***************************************************************************)
\* The request is answered in this step
answered == ~reply.done /\ reply'.done /\ request.op # "all_symbols"

\* C14: for edit, save, symbols, goto, complete and references alike, a
\* request whose URL is not in the file map when it arrives returns failure.
C14_UnknownUrlFails ==
    [][(answered /\ request.uri \notin DOMAIN files) => ~reply'.ok]_vars

\* C14, amended: edit, save, symbols, goto and complete fail for a URL that
\* is not in the file map when the request arrives; references fails for a
\* URL that is not in the file map once load_all has run.
C14_UnknownUrlFailsOnceLoaded ==
    [][/\ (answered /\ request.op # "references" /\ request.uri \notin DOMAIN files)
           => ~reply'.ok
       /\ (answered /\ request.op = "references" /\ request.uri \notin DOMAIN files')
           => ~reply'.ok]_vars

\* references has failed for a URL that load_all did not bring into the
\* map, having loaded another file
C14_Witness ==
    /\ request.op = "references"
    /\ request.uri = PathNone
    /\ PathE \in DOMAIN files
    /\ reply = WsErr

\* Whether the characters of the token occur in the name in this order
RECURSIVE occurs_in_order(_, _, _)
occurs_in_order(token, name, ignore_case) ==
    IF token = <<>> THEN TRUE
    ELSE IF name = <<>> THEN FALSE
    ELSE IF \/ Head(token) = Head(name)
            \/ ignore_case /\ fold(Head(token)) = fold(Head(name))
    THEN occurs_in_order(Tail(token), Tail(name), ignore_case)
    ELSE occurs_in_order(token, Tail(name), ignore_case)

\* The symbols of the loaded files that every token of the query matches
symbols_matching(query) ==
    LET tokens == split_whitespace(query)
        ignore_case == \A k \in 1..Len(query) : ~is_uppercase(query[k])
        matched(name) ==
            \A k \in 1..Len(tokens) : occurs_in_order(tokens[k], name, ignore_case)
    IN  UNION {{[uri |-> u, name |-> files[u].symbols[k].name,
                 range |-> files[u].symbols[k].range] :
                   k \in {i \in 1..Len(files[u].symbols) : matched(files[u].symbols[i].name)}} :
               u \in DOMAIN files}

\* C15: all_symbols(query) returns exactly the symbols of the files in the
\* map after load_all whose name has, for every whitespace-separated token
\* of the query, the characters of the token in the same order; letter case
\* is ignored exactly when the query has no uppercase character.
C15_AllSymbolsMatchTokens ==
    (request.op = "all_symbols" /\ reply.done /\ reply.ok)
        => reply.value = symbols_matching(request.query)

\* C15 for the queries made of letters and spaces
C15_AllSymbolsMatchLetters ==
    (/\ request.op = "all_symbols"
     /\ reply.done
     /\ reply.ok
     /\ \A k \in 1..Len(request.query) : request.query[k] \in {"a", "b", "A", "B", " "})
        => reply.value = symbols_matching(request.query)

\* The places in the loaded files of the field types with one of the texts
field_types_with(texts) ==
    UNION {{[uri |-> u, range |-> files[u].types[k].range] :
               k \in {i \in 1..Len(files[u].types) : files[u].types[i].text \in texts}} :
           u \in DOMAIN files}

\* C16: references on a Type context t returns exactly the ranges, in every
\* file of the map after load_all, the defining file included, of the field
\* types whose text is t.name or pkg + "." + t.name, pkg being the package of
\* the file where find_symbol located the definition.
C16_TypeReferences ==
    (/\ request.op = "references"
     /\ reply.done
     /\ reply.ok
     /\ request.ctx.some
     /\ request.ctx.value.kind = "Type")
        => LET t == request.ctx.value.typ
               found == find_symbol(request.uri, files[request.uri], t)
               pkg == files[found.uri].package
           IN  /\ found.some
               /\ reply.value =
                      Some(field_types_with(
                          IF pkg.some THEN {t.name, pkg.value \o <<".">> \o t.name}
                          ELSE {t.name}))

\* references on B, defined in sub/a.proto of package A, has returned the
\* field of type B of that file and the field of type A.B of a.proto
C16_Witness ==
    /\ request.op = "references"
    /\ request.uri = PathSubA
    /\ reply.done
    /\ reply.ok
    /\ reply.value.some
    /\ [uri |-> PathSubA, range |-> 1] \in reply.value.value
    /\ [uri |-> PathA, range |-> 2] \in reply.value.value

\* The paths, relative to their search root, of the proto files on disk
\* below a search root
proto_paths_on_disk ==
    {q.rel : q \in {d \in DOMAIN disk :
                       /\ \E i \in 1..Len(ProtoPaths) : d.root = ProtoPaths[i]
                       /\ is_proto(d.rel)}}

\* C17: in the Import context, complete offers no path the current file
\* imports and not the current file, whether it is an entry of a search root
\* or in a directory below one; it offers every other proto file below a
\* search root, labelled with its path from the root and inserted as that
\* path followed by `";`.
C17_ImportCompletion ==
    (/\ request.op = "complete"
     /\ request.ctx.kind = "Import"
     /\ reply.done
     /\ reply.ok)
        => LET file == files[request.uri]
               imported == {file.imports[k] : k \in 1..Len(file.imports)}
               others == (proto_paths_on_disk \ imported) \ {request.uri.rel}
           IN  reply.value = Some({[label |-> l, insert_text |-> l \o "\";"] : l \in others})

\* C17 for a current file that is an entry of a search root
C17_ImportCompletionInRoot ==
    (/\ request.op = "complete"
     /\ request.ctx.kind = "Import"
     /\ reply.done
     /\ reply.ok
     /\ is_direct(request.uri.rel))
        => LET file == files[request.uri]
               imported == {file.imports[k] : k \in 1..Len(file.imports)}
               others == (proto_paths_on_disk \ imported) \ {request.uri.rel}
           IN  reply.value = Some({[label |-> l, insert_text |-> l \o "\";"] : l \in others})


(***************************************************************************)
(* Claims about the contexts of a position.                                *)
(***************************************************************************)
\* The node the cursor of the request is on: for completion the node at the
\* column before it, for type_at the node at its column
cursor_node ==
    named_descendant_for_point_range(text, tree,
        [row |-> request.row,
         column |-> IF request.op = "type_at" \/ request.col = 0 THEN request.col
                    ELSE request.col - 1])

\* The nearest body around node i, 0 if there is none or a fieldName is met
\* on the way to it
RECURSIVE nearest_body(_, _)
nearest_body(tr, i) ==
    IF i = 0 \/ tr[i].kind = "fieldName" THEN 0
    ELSE IF tr[i].kind \in {"messageBody", "enumBody", "serviceBody"} THEN i
    ELSE nearest_body(tr, tr[i].parent)

\* The names of the messages around node i, the outermost first
RECURSIVE enclosing_messages(_, _, _)
enclosing_messages(t, tr, i) ==
    LET p == tr[i].parent
    IN  IF p = 0 THEN <<>>
        ELSE IF tr[p].kind = "message"
        THEN Append(enclosing_messages(t, tr, p), type_name(t, tr, p).value)
        ELSE enclosing_messages(t, tr, p)

\* The message whose body is the nearest body of the cursor node, when the
\* cursor is on an ident or a type as C18 has it; 0 otherwise
completed_message ==
    LET body == nearest_body(tree, cursor_node)
    IN  IF /\ request.op = "completion_context"
           /\ tree[1].kind = "source_file"
           /\ tree[cursor_node].kind \in {"ident", "type"}
           /\ tree[tree[cursor_node].parent].kind # "oneofName"
           /\ body # 0
           /\ tree[body].kind = "messageBody"
        THEN tree[body].parent
        ELSE 0

\* C18: with the cursor on an ident or type node (not the name of a oneof,
\* not under a fieldName) whose nearest body is that of a message nested in
\* other messages, completion_context returns Message(n), n being the names
\* of all the messages around that message and its own name, joined by ".".
C18_NestedMessageContext ==
    (/\ reply.done
     /\ completed_message # 0
     /\ enclosing_messages(text, tree, completed_message) # <<>>)
        => /\ reply.result.ok
           /\ reply.result.some
           /\ reply.result.kind = "Message"
           /\ reply.result.name =
                  join(Append(enclosing_messages(text, tree, completed_message),
                              type_name(text, tree, completed_message).value))

\* What holds instead of C18: the context names the message by its own name
\* only, nested or not
C18_MessageContextOwnName ==
    (reply.done /\ completed_message # 0)
        => /\ reply.result.ok
           /\ reply.result.some
           /\ reply.result.kind = "Message"
           /\ reply.result.name = type_name(text, tree, completed_message).value

\* C19: completion_context(row, col) returns a context or none, not an
\* error, for every text and every position of it, the position on the last
\* line after a final "\n" included.
C19_CompletionContextNeverFails ==
    (request.op = "completion_context" /\ reply.done)
        => reply.result.ok /\ ~reply.result.panic

\* What holds instead of C19: completion_context fails at the positions of
\* the line after the final "\n" of a text with a source_file root, and
\* nowhere else
C19_FailsAfterFinalNewline ==
    (request.op = "completion_context" /\ reply.done)
        => /\ ~reply.result.panic
           /\ ~reply.result.ok <=> /\ tree[1].kind = "source_file"
                                    /\ request.row = Len(split_inclusive(text))

\* Whether node i is the ident of the name of a message or an enum
is_declaration_name(tr, i) ==
    /\ tr[i].kind = "ident"
    /\ tr[i].parent # 0
    /\ tr[tr[i].parent].kind \in {"messageName", "enumName"}

\* C20: a GotoTypeContext that type_at returns has no parent only when the
\* cursor node has no message around it; otherwise its parent is the names
\* of the messages around it, joined by ".".  For the name of a declaration
\* the messages around it are those around the declaration.
C20_ParentIsEnclosingMessages ==
    (/\ request.op = "type_at"
     /\ reply.done
     /\ reply.result.some
     /\ reply.result.kind = "Type")
        => LET around ==
                   IF is_declaration_name(tree, cursor_node)
                   THEN enclosing_messages(text, tree, tree[tree[cursor_node].parent].parent)
                   ELSE enclosing_messages(text, tree, cursor_node)
           IN  reply.result.parent = IF around = <<>> THEN None ELSE Some(join(around))

\* What holds instead of C20: the parent is the messages around the cursor
\* node for the type of a field, and absent for the name of a declaration,
\* nested or not
C20_ParentOfFieldTypes ==
    (/\ request.op = "type_at"
     /\ reply.done
     /\ reply.result.some
     /\ reply.result.kind = "Type")
        => LET around == enclosing_messages(text, tree, cursor_node)
           IN  reply.result.parent =
                   IF is_declaration_name(tree, cursor_node) \/ around = <<>> THEN None
                   ELSE Some(join(around))

(***************************************************************************)
(* Claims about the file map over a session.                               *)
(***************************************************************************)
\* The file a url stands for: the one of the map, or else the one on disk
file_of(u) == IF u \in DOMAIN files THEN files[u] ELSE disk[u]

\* The files that the imports of a file resolve to
resolved_imports(file) ==
    {find_import(file.imports[k]).value :
        k \in {i \in 1..Len(file.imports) : find_import(file.imports[i]).some}}

\* The urls reached from the urls `seen` through imports that resolve
RECURSIVE reachable(_)
reachable(seen) ==
    LET next == seen \cup UNION {resolved_imports(file_of(u)) :
                                    u \in {v \in seen : v \in DOMAIN files \/ readable(v)}}
    IN  IF next = seen THEN seen ELSE reachable(next)

\* C23: after open or edit has returned successfully, every file reached
\* from the file of the request through a chain of imports that resolve to
\* files under a search root is in the file map.
C23_ReachableImportsLoaded ==
    (request.op \in {"open", "edit"} /\ reply.done /\ reply.ok) =>
        reachable({request.uri}) \subseteq DOMAIN files

\* C23 for the imports of the file of the request itself
C23_OwnImportsLoaded ==
    (request.op \in {"open", "edit"} /\ reply.done /\ reply.ok) =>
        resolved_imports(files[request.uri]) \subseteq DOMAIN files

\* C24: a file of the map stays in the map with its text and tree over an
\* open or edit of another file, over all_symbols and over references, also
\* when its text is not the one on disk.
C24_LoadedFilesKept ==
    [][\A u \in DOMAIN files :
          /\ u \in DOMAIN files'
          /\ (request'.op \in {"open", "edit"} /\ request'.uri = u) \/ files'[u] = files[u]]_vars

\* sub/a.proto, which imports a.proto, has been opened with success while
\* the map holds for a.proto a text that is not the one on disk, and still
\* holds it
C24_Witness ==
    /\ request.op = "open"
    /\ request.uri = PathSubA
    /\ request.file = WsContent[PathSubA]
    /\ reply.done
    /\ reply.ok
    /\ PathA \in DOMAIN files
    /\ files[PathA] = WsContent[PathX]
    /\ disk[PathA] # WsContent[PathX]

\* C26: for every file of the map, every import of it that find_import
\* resolves to a file is in the map under the url of that file.
C26_ImportsOfLoadedFilesLoaded ==
    \A u \in DOMAIN files : resolved_imports(files[u]) \subseteq DOMAIN files

\* C26, what follows from it: goto does not abort on the lookup of an
\* imported file
C26_GotoNeverAborts ==
    (request.op = "goto" /\ reply.done) => ~reply.panic

\* C26 as long as every request has returned Ok and none was all_symbols or
\* references
C26_ImportsLoadedByOpenAndEdit ==
    [][(C26_ImportsOfLoadedFilesLoaded /\ request'.op \in {"open", "edit"} /\ reply'.ok
           /\ (request'.op = "open" => request'.protoc))
          => C26_ImportsOfLoadedFilesLoaded']_vars

\* C29: after open(uri, text) has returned, the file of the map for uri is
\* the one of `text`, also when the map had a file for uri.
C29_OpenedTextStored ==
    (request.op = "open" /\ reply.done) =>
        /\ request.uri \in DOMAIN files
        /\ files[request.uri] = request.file

\* a.proto has been opened with a text that is not the one on disk after
\* load_all had read it from disk: the map holds the file of the second
\* search root that only load_all reads, and holds the opened text
C29_Witness ==
    /\ request.op = "open"
    /\ request.uri = PathA
    /\ reply.done
    /\ PathU \notin DOMAIN disk
    /\ PathB \in DOMAIN disk
    /\ PathB2 \in DOMAIN files
    /\ request.file # disk[PathA]
    /\ files[PathA] = request.file

C27_LabelOfNestedSymbolResolves ==
    (request.op = "complete" /\ reply.done
        /\ strip_prefix(files[request.uri].symbols[request.symbol].name,
                        request.ctx.name \o <<".">>).some
        /\ \A k \in 1..Len(files[request.uri].symbols) :
               k # request.symbol =>
                   files[request.uri].symbols[k].name
                       # files[request.uri].symbols[request.symbol].name) =>
        /\ ~reply.result.panic
        /\ reply.result.some
        /\ reply.result.uri = request.uri
        /\ reply.result.range = files[request.uri].symbols[request.symbol].range

(***************************************************************************)
(* Claims about main_loop.                                                 *)
(***************************************************************************)
\* The place of the shutdown request among the messages, past the last
\* message if the client sends none
first_shutdown ==
    LET at == {k \in 1..Len(inbox) : inbox[k].kind = "Request" /\ inbox[k].method = Shutdown}
    IN  IF at = {} THEN Len(inbox) + 1 ELSE CHOOSE k \in at : \A j \in at : k <= j

\* C21: the loop does not end on a request or notification that fails (a
\* document-symbol request that cannot be answered, a didOpen or didSave of
\* a url that is not a file or whose diagnostics cannot be computed): the
\* loop ends with an error only once it has taken the shutdown request.
C21_FailureDoesNotStopLoop ==
    server = "returned_err" => first_shutdown <= received

\* The client ends the session as the protocol has it: a shutdown request,
\* and the exit notification right after it
client_shuts_down ==
    /\ first_shutdown < Len(inbox)
    /\ inbox[first_shutdown + 1].kind = "Notification"
    /\ inbox[first_shutdown + 1].method = Exit

\* C30: every request received before the shutdown request, whatever its
\* method, is in the end answered by exactly one response with its id, and
\* the responses are sent in the order of the requests.
C30_EveryRequestAnswered ==
    LET is_early_request(m) == m.kind = "Request" /\ m.id < first_shutdown
        is_early_response(m) == m.kind = "Response" /\ m.id < first_shutdown
        ids(msgs) == [k \in 1..Len(msgs) |-> msgs[k].id]
    IN  client_shuts_down =>
            <>[](ids(SelectSeq(outbox, is_early_response))
                     = ids(SelectSeq(inbox, is_early_request)))

====
